---- MODULE Spec2Model ----
(***************************************************************************)
(* Model of the GitHub Actions secrets manager console.                    *)
(*                                                                         *)
(*   BulkOperations      bulk cross-product engine (bulkCreateSecrets,     *)
(*                       bulkCreateVariables, createEnvironmentIfNeeded)   *)
(*   GlobalSecretsList   inventory scan (fetchAllSecretsAndVariables)      *)
(*   CreateEnvironmentDialog   createEnvironments over the selected repos  *)
(*   RepositoryGrid      fetchEnvironments, opening and closing the dialogs*)
(*   EnvironmentManager  createSecret, createVariable, the two lists       *)
(*   App                 token, organizations, selected organization       *)
(*                                                                         *)
(* Every `await fetch(...)` is a yield point: the request is put in        *)
(* flight, the network resolves it with a response or a transport error,   *)
(* and the continuation of the async function then runs to its next await  *)
(* in one step.                                                            *)
(***************************************************************************)
EXTENDS Integers, Sequences, FiniteSets, TLC

(***************************************************************************)
(* Bounds                                                                  *)
(***************************************************************************)
\* number of repositories of the organization handed to the components
NumRepos == 2
\* number of entries of COMMON_ENVIRONMENTS that are modelled
NumEnvs == 2
\* largest number of targets (|R| * |E|) of one bulk run
MaxTargets == 4
\* largest number of entries in one secrets or variables list response
MaxListLen == 2
\* largest number of entries the remote lists in one behaviour, over all scans
MaxEntries == 2

(***************************************************************************)
(* Program constants and input sets                                        *)
(***************************************************************************)
AllRepoNames == <<"api", "web", "docs", "infra">>
AllEnvNames == <<"production", "staging", "development", "preview">>

\* `repositories` prop: the names of the organization's repositories
repositories == SubSeq(AllRepoNames, 1, NumRepos)
\* const COMMON_ENVIRONMENTS of BulkOperations
COMMON_ENVIRONMENTS == SubSeq(AllEnvNames, 1, NumEnvs)
\* const COMMON_ENVIRONMENTS of GlobalSecretsList
SCAN_COMMON_ENVIRONMENTS == SubSeq(AllEnvNames, 1, NumEnvs)

Range(s) == {s[k] : k \in 1..Len(s)}
RepoNames == Range(repositories)
EnvNames == Range(COMMON_ENVIRONMENTS)

\* contents of the name fields of the form
NameValues == {"", " ", "TOKEN"}
\* contents of the value fields of the form; "€" stands for any text with a
\* character above U+00FF
FieldValues == {"", " ", "hunter2", "€"}
\* String.prototype.trim on the modelled field values
Trim(s) == IF s = " " THEN "" ELSE s
\* btoa(s) returns; it throws InvalidCharacterError for text outside Latin1
BtoaReturns(s) == s # "€"
BtoaMessage == "Failed to execute 'btoa': characters outside of the Latin1 range"

\* statuses the remote answers with
Statuses == {200, 404, 422}
\* messages of the errors fetch rejects with
ErrorMessages == {"Failed to fetch"}

HttpResponse(s) == [type |-> "http", status |-> s]
TransportError(m) == [type |-> "error", message |-> m]
Outcomes == {HttpResponse(s) : s \in Statuses} \cup {TransportError(m) : m \in ErrorMessages}

\* Response.ok
Ok(resp) == resp.type = "http" /\ resp.status >= 200 /\ resp.status <= 299

NoRequest == [kind |-> "none"]
NoResponse == [type |-> "none"]
Request(kind, repo, env) == [kind |-> kind, repo |-> repo, env |-> env]

\* value of an absent `error` field of an OperationResult
Undefined == "undefined"
EnvFailedMessage == "Failed to create/access environment"

\* String(n) for the statuses of the model, as used in `HTTP ${response.status}`
StatusText(s) ==
    CASE s = 200 -> "HTTP 200"
      [] s = 404 -> "HTTP 404"
      [] s = 422 -> "HTTP 422"
      [] OTHER -> "HTTP ?"

(***************************************************************************)
(* State                                                                   *)
(***************************************************************************)
VARIABLES
    \* ---- BulkOperations: component state (useState) ----
    selectedRepos,          \* string[]
    selectedEnvironments,   \* string[]
    isProcessing,           \* boolean
    progress,               \* number, kept as the fraction num/den
    results,                \* OperationResult[]
    lastToast,              \* the toast shown by the run, if it has shown one
    \* ---- BulkOperations: the running bulkCreate* invocation ----
    pc,                     \* "idle" | "envGet" | "envPut" | "write" | "done"
    runKind,                \* "none" | "secrets" | "variables"
    runRepos,               \* selectedRepos captured by the invocation
    runEnvs,                \* selectedEnvironments captured by the invocation
    runName,                \* secretName / variableName captured by the invocation
    runValue,               \* secretValue / variableValue captured by the invocation
    totalOperations,
    completedOperations,
    operationResults,
    repoIdx,                \* position of the outer loop (1-based)
    envIdx,                 \* position of the inner loop (1-based)
    pending,                \* request of the run that is in flight
    response,               \* resolved, not yet consumed, outcome of `pending`
    \* ---- BulkOperations: history of the run ----
    targetLog,              \* requests issued for the target being processed
    ensureReturned,         \* target -> what createEnvironmentIfNeeded returned for it
    writesIssued,           \* target -> number of write requests issued for it
    writeAnswers,           \* target -> the outcome of its write request
    lastInvocation          \* the last call of bulkCreateSecrets/bulkCreateVariables

bulkVars == <<selectedRepos, selectedEnvironments, isProcessing, progress, results, lastToast,
              pc, runKind, runRepos, runEnvs, runName, runValue, totalOperations, completedOperations,
              operationResults, repoIdx, envIdx, pending, response,
              targetLog, ensureReturned, writesIssued, writeAnswers, lastInvocation>>

VARIABLES
    \* ---- GlobalSecretsList: props and component state ----
    isGlobalListOpen,       \* isOpen prop (RepositoryGrid's isGlobalListOpen)
    secretsMap,             \* Map<string, SecretLocation>, as name -> entry
    variablesMap,           \* Map<string, VariableLocation>, as name -> entry
    loading,                \* boolean
    \* ---- GlobalSecretsList: the running fetchAllSecretsAndVariables ----
    scanPc,                 \* "idle" | "secrets" | "variables"
    scanRepoIdx,            \* position of the outer loop (1-based)
    scanEnvIdx,             \* position of the inner loop (1-based)
    newSecretsMap,
    newVariablesMap,
    scanPending,            \* list request of the scan that is in flight
    scanResponse,           \* resolved, not yet consumed, outcome of scanPending
    \* ---- GlobalSecretsList: history ----
    scanIssued,             \* list requests the scan has issued, in order
    firstFailure,           \* the first list request of the scan that failed
    entriesSeen             \* entries the remote has listed so far

scanVars == <<isGlobalListOpen, secretsMap, variablesMap, loading, scanPc, scanRepoIdx,
              scanEnvIdx, newSecretsMap, newVariablesMap, scanPending, scanResponse,
              scanIssued, firstFailure, entriesSeen>>

VARIABLES
    \* ---- GlobalSecretsList: an invocation started before the running one ----
    earlierScan,            \* its locals and its position, as one record
    \* ---- GlobalSecretsList: what the responses listed ----
    scanListed,             \* (kind, name, repo, env) listed to the running invocation
    publishedListed         \* the same, of the invocation that published last

overlapVars == <<earlierScan, scanListed, publishedListed>>

VARIABLES
    \* ---- RepositoryGrid: which dialog is shown ----
    isBulkOpsOpen,          \* boolean
    isCreateEnvOpen         \* boolean

dialogVars == <<isBulkOpsOpen, isCreateEnvOpen>>

VARIABLES
    \* ---- CreateEnvironmentDialog: component state (useState) ----
    ceSelectedRepos,        \* selectedRepos: string[]
    isCreating,             \* boolean
    ceProgress,             \* progress: number, kept as the fraction num/den
    ceResults,              \* results: CreationResult[]
    ceToast,                \* the toast shown by createEnvironments, if any
    \* ---- CreateEnvironmentDialog: the running createEnvironments ----
    cePc,                   \* "idle" | "put" | "done"
    ceRunRepos,             \* selectedRepos captured by the invocation
    ceRunName,              \* environmentName captured by the invocation
    ceTotalOperations,
    ceCompletedOperations,
    creationResults,
    ceIdx,                  \* position of the loop (1-based)
    cePending,              \* request of createEnvironments that is in flight
    ceResponse,             \* resolved, not yet consumed, outcome of cePending
    \* ---- CreateEnvironmentDialog: history ----
    ceLastInvocation        \* the last call of createEnvironments

ceVars == <<ceSelectedRepos, isCreating, ceProgress, ceResults, ceToast, cePc, ceRunRepos,
            ceRunName, ceTotalOperations, ceCompletedOperations, creationResults, ceIdx,
            cePending, ceResponse, ceLastInvocation>>

VARIABLES
    \* ---- RepositoryGrid: component state and the prop it passes down ----
    environments,           \* Record<string, Environment[]>, as repo -> names
    environmentsLoading,    \* Record<string, boolean>
    onEnvironmentCreated,   \* the prop of the two dialogs: Undefined or "refreshAll"
    \* ---- RepositoryGrid: the fetchEnvironments calls that have not settled ----
    envFetches,             \* in the order they were issued
    \* ---- RepositoryGrid: history ----
    latestAnswer            \* repo -> what its most recently issued call set, once settled

gridVars == <<environments, environmentsLoading, onEnvironmentCreated, envFetches, latestAnswer>>

VARIABLES
    \* ---- a remote that keeps what it is sent (the GitHub REST API) ----
    remoteEnvironments,     \* the (repo, env) whose environment exists
    remoteSecrets,          \* the (repo, env, name) whose secret exists
    runsStarted             \* bulkCreate* invocations started against it

remoteVars == <<remoteEnvironments, remoteSecrets, runsStarted>>

VARIABLES
    \* ---- App: component state (useState) ----
    token,                  \* string
    organizations,          \* Organization[], as logins
    selectedOrg,            \* Organization | null
    appLoading,             \* loading: boolean
    \* ---- App: the running fetchOrganizations ----
    orgPending,             \* GET /user/orgs was issued and not yet consumed
    orgResponse,            \* resolved, not yet consumed, outcome of it
    \* ---- App: history ----
    persistentStorage,      \* what was written to localStorage, sessionStorage or a cookie
    lastHandler             \* the handler or continuation that ran last

appVars == <<token, organizations, selectedOrg, appLoading, orgPending, orgResponse,
             persistentStorage, lastHandler>>

VARIABLES
    \* ---- EnvironmentManager: props ----
    isManagerOpen,          \* isOpen
    repository,             \* RepositoryGrid's selectedRepo
    environment,            \* RepositoryGrid's selectedEnv
    \* ---- EnvironmentManager: component state (useState) ----
    bulkMode,               \* boolean
    emSelectedRepos,        \* selectedRepos: string[]
    emSelectedEnvironments, \* selectedEnvironments: string[]
    emIsCreating,           \* isCreating: boolean
    emSecrets,              \* secrets, with the pair they were fetched for
    emVariables,            \* variables, with the pair they were fetched for
    emListFetches,          \* fetchSecrets/fetchVariables calls that have not settled
    emToast,                \* the toast shown by createSecret/createVariable, if any
    \* ---- EnvironmentManager: the running createSecret/createVariable ----
    emPc,                   \* "idle" | "write" | "done"
    emKind,                 \* "none" | "secrets" | "variables"
    targetRepos,
    targetEnvs,
    emName,                 \* secretName / variableName captured by the invocation
    emValue,                \* secretValue / variableValue captured by the invocation
    successCount,
    totalCount,
    emRepoIdx,              \* position of the outer loop (1-based)
    emEnvIdx,               \* position of the inner loop (1-based)
    emPending,              \* write of the invocation that is in flight
    emResponse,             \* resolved, not yet consumed, outcome of emPending
    \* ---- EnvironmentManager: history ----
    emIssued,               \* the writes the invocation has issued, in order
    emThrown                \* the message of the error its catch has caught, if any

emVars == <<isManagerOpen, repository, environment, bulkMode, emSelectedRepos,
            emSelectedEnvironments, emIsCreating, emSecrets, emVariables, emListFetches,
            emToast, emPc, emKind, targetRepos, targetEnvs, emName, emValue, successCount,
            totalCount, emRepoIdx, emEnvIdx, emPending, emResponse, emIssued, emThrown>>

\* what the actions of one component leave alone
notBulkNorGridVars == <<scanVars, overlapVars, dialogVars, ceVars, remoteVars, appVars, emVars>>
notCeNorGridVars == <<bulkVars, scanVars, overlapVars, dialogVars, remoteVars, appVars, emVars>>
notBulkVars == <<notBulkNorGridVars, gridVars>>
notScanVars == <<bulkVars, dialogVars, ceVars, gridVars, remoteVars, appVars, emVars>>
notCeVars == <<notCeNorGridVars, gridVars>>
notGridVars == <<bulkVars, scanVars, overlapVars, dialogVars, ceVars, remoteVars, appVars, emVars>>
notAppVars == <<bulkVars, scanVars, overlapVars, dialogVars, ceVars, gridVars, remoteVars, emVars>>
notEmVars == <<bulkVars, scanVars, overlapVars, dialogVars, ceVars, gridVars, remoteVars, appVars>>

vars == <<bulkVars, scanVars, overlapVars, dialogVars, ceVars, gridVars, remoteVars, appVars,
          emVars>>

(***************************************************************************)
(* Helpers                                                                 *)
(***************************************************************************)
\* Array.prototype.includes
Includes(s, x) == \E k \in 1..Len(s) : s[k] = x
\* Array.prototype.filter((r) => r !== x)
Without(s, x) == SelectSeq(s, LAMBDA r : r # x)

\* variant: the progress is computed before the target is counted
Fraction_BeforeIncrement(completed, total) == [num |-> (completed - 1) * 100, den |-> total]

\* (completedOperations / totalOperations) * 100, kept exact as num/den
Fraction(completed, total) == [num |-> completed * 100, den |-> total]
Zero == [num |-> 0, den |-> 1]
\* a <= b and a = 100 on fractions with positive denominators
FracLeq(a, b) == a.num * b.den <= b.num * a.den
IsHundred(a) == a.num = 100 * a.den

Targets == RepoNames \X EnvNames

(***************************************************************************)
(* createEnvironmentIfNeeded                                               *)
(***************************************************************************)
\* variant: the environment is created whatever the GET answered
NeedsCreate_AnyStatus(resp) == resp.type = "http"

\* variant: `return true` instead of `return checkResponse.ok`
EnsureAfterCheck_IgnoreStatus(resp) == resp.type # "error"

\* checkResponse.status === 404: the PUT of the environment is issued
NeedsCreate(resp) == resp.type = "http" /\ resp.status = 404

\* After the GET of the environment resolved with something else than 404:
\* the value the function returns (false from the catch block on an error).
EnsureAfterCheck(resp) ==
    IF resp.type = "error" THEN FALSE ELSE Ok(resp)

\* After the PUT of the environment resolved: the value the function returns;
\* onEnvironmentCreated is called first when the PUT answered 2xx.
EnsureAfterCreate(resp) ==
    IF resp.type = "error" THEN FALSE ELSE Ok(resp)

(***************************************************************************)
(* OperationResult records pushed by bulkCreateSecrets/bulkCreateVariables *)
(***************************************************************************)
EnvFailureResult(repo, env) ==
    [repo |-> repo, environment |-> env, success |-> FALSE, error |-> EnvFailedMessage]

\* the record pushed by the catch block for an Error with `message`
ExceptionResult(repo, env, message) ==
    [repo |-> repo, environment |-> env, success |-> FALSE, error |-> message]

\* variant: the error is filled in for an ok response too
WriteResult_AlwaysError(repo, env, resp) ==
    IF resp.type = "error"
    THEN ExceptionResult(repo, env, resp.message)
    ELSE [repo |-> repo, environment |-> env, success |-> Ok(resp),
          error |-> StatusText(resp.status)]

\* the record pushed once the write request settled: from the response, or
\* from the catch block when fetch rejected
WriteResult(repo, env, resp) ==
    IF resp.type = "error"
    THEN ExceptionResult(repo, env, resp.message)
    ELSE [repo |-> repo, environment |-> env, success |-> Ok(resp),
          error |-> IF Ok(resp) THEN Undefined ELSE StatusText(resp.status)]

\* variant: the length of the list, without the filter
SuccessCount_NoFilter(res) == Len(res)

\* operationResults.filter((r) => r.success).length
SuccessCount(res) == Cardinality({k \in 1..Len(res) : res[k].success})

(***************************************************************************)
(* Loop control of the nested for-of loops                                 *)
(***************************************************************************)
\* variant: the outer loop over the repositories is not continued
HasNext_InnerOnly(i, j, repos, envs) == j < Len(envs)

\* variant: the inner loop does not restart at the first environment
NextEnvIdx_NoReset(i, j, repos, envs) == IF j < Len(envs) THEN j + 1 ELSE j

\* TRUE when the target at (i, j) is not the last of repos x envs
HasNext(i, j, repos, envs) == j < Len(envs) \/ i < Len(repos)
NextRepoIdx(i, j, repos, envs) == IF j < Len(envs) THEN i ELSE i + 1
NextEnvIdx(i, j, repos, envs) == IF j < Len(envs) THEN j + 1 ELSE 1

CurrentRepo == runRepos[repoIdx]
CurrentEnv == runEnvs[envIdx]
CurrentTarget == <<CurrentRepo, CurrentEnv>>

WriteKind == IF runKind = "secrets" THEN "putSecret" ELSE "postVariable"
\* building the request of the write throws before fetch is called: the body
\* of the secret PUT holds btoa(secretValue)
WriteThrows == runKind = "secrets" /\ ~BtoaReturns(runValue)
ToastTitle == IF runKind = "secrets" THEN "Bulk Secret Creation Complete"
              ELSE "Bulk Variable Creation Complete"

LogEntry(req) == [req |-> req, resp |-> NoResponse]

\* record of a handler call: which handler, and whether it was called with a
\* blank (empty or whitespace-only) field or an empty selection
IsBlank(s) == s \in {"", " "}
Invocation(fn, invalid) == [fn |-> fn, invalid |-> invalid]
NoInvocation == Invocation("none", FALSE)

(***************************************************************************)
(* Initial state                                                           *)
(***************************************************************************)
\* the arrays the selection handlers can build: every sequence of distinct
\* elements of S (a checkbox appends a name only while it is not selected)
DistinctSeqs(S) ==
    {s \in UNION {[1..n -> S] : n \in 0..Cardinality(S)} :
        \A a, b \in DOMAIN s : a # b => s[a] # s[b]}

\* the selection of the dialog as RepositoryGrid opens it: by the Bulk
\* Operations button (openBulkOperations(), nothing preset), or by the Create
\* button of a grid cell (openBulkOperations(repo, env))
PresetSelections ==
    {<<<<>>, <<>>>>} \cup {<<<<r>>, <<e>>>> : r \in RepoNames, e \in EnvNames}

(***************************************************************************)
(* RepositoryGrid: the environment lists and their refresh                 *)
(***************************************************************************)

\* how many rounds of "one fetchEnvironments per repository" the model lets
\* be unsettled at once
MaxRefreshRounds == 2

\* data.environments of the answers to GET .../environments
EnvironmentLists == {<<>>, <<COMMON_ENVIRONMENTS[1]>>}

\* what a fetchEnvironments call sees: an ok response with its list, or a
\* response that is not ok or a rejected fetch (both set [])
FetchOutcomes ==
    {[ok |-> TRUE, list |-> l] : l \in EnvironmentLists} \cup {[ok |-> FALSE, list |-> <<>>]}

\* the most recently issued call of a repository has not settled
Unsettled == <<"unsettled">>

\* an unsettled fetchEnvironments(repo) call, with what made RepositoryGrid
\* issue it
Fetch(repo, cause) == [repo |-> repo, cause |-> cause]

\* the unsettled calls once a new bulkCreate* invocation starts: those an
\* earlier invocation caused are no longer caused by the running one
EarlierRun(fetches) ==
    [k \in 1..Len(fetches) |->
        IF fetches[k].cause = "bulkCreate" THEN Fetch(fetches[k].repo, "earlier bulkCreate")
        ELSE fetches[k]]

RemoveAt(s, k) == SubSeq(s, 1, k - 1) \o SubSeq(s, k + 1, Len(s))

\* the grid once its first load has settled, with the prop it gives to the
\* dialogs
InitGrid(prop) ==
    /\ environments \in [RepoNames -> {<<>>}]
    /\ environmentsLoading = [r \in RepoNames |-> FALSE]
    /\ onEnvironmentCreated = prop
    /\ envFetches = <<>>
    /\ latestAnswer = environments

\* repositories.forEach((repo) => fetchEnvironments(repo.name)): every call
\* runs up to its await, so all the requests are issued in the same step
RefreshAll(cause) ==
    /\ Len(envFetches) + Len(repositories) <= MaxRefreshRounds * Len(repositories)
    /\ envFetches' = envFetches \o [k \in 1..Len(repositories) |-> Fetch(repositories[k], cause)]
    /\ environmentsLoading' = [r \in RepoNames |-> TRUE]
    /\ latestAnswer' = [r \in RepoNames |-> Unsettled]
    /\ UNCHANGED <<environments, onEnvironmentCreated>>

\* `if (onEnvironmentCreated) onEnvironmentCreated()` of the dialogs
CallOnEnvironmentCreated(cause) ==
    IF onEnvironmentCreated = Undefined THEN UNCHANGED gridVars ELSE RefreshAll(cause)

\* the k-th unsettled call is the most recently issued one for its repository
IsLatestFor(fetches, k) ==
    \A j \in (k + 1)..Len(fetches) : fetches[j].repo # fetches[k].repo

\* one fetchEnvironments call settles, in any order: the functional updates
\* of setEnvironments and setEnvironmentsLoading for its repository
FetchEnvironmentsSettles ==
    /\ \E k \in 1..Len(envFetches), o \in FetchOutcomes :
        LET repo == envFetches[k].repo
            latest == IsLatestFor(envFetches, k) /\ latestAnswer[repo] = Unsettled
        IN
        /\ environments' = [environments EXCEPT ![repo] = o.list]
        /\ environmentsLoading' = [environmentsLoading EXCEPT ![repo] = FALSE]
        /\ envFetches' = RemoveAt(envFetches, k)
        /\ latestAnswer' = IF latest THEN [latestAnswer EXCEPT ![repo] = o.list] ELSE latestAnswer
    /\ UNCHANGED onEnvironmentCreated
    /\ UNCHANGED notGridVars

NextGrid == FetchEnvironmentsSettles

\* the dialog with some selection made and no run started yet
InitBulk ==
    /\ selectedRepos \in DistinctSeqs(RepoNames)
    /\ selectedEnvironments \in DistinctSeqs(EnvNames)
    /\ isProcessing = FALSE
    /\ progress = Zero
    /\ results = <<>>
    /\ lastToast = [title |-> "none", successCount |-> 0, total |-> 0]
    /\ pc = "idle"
    /\ runKind = "none"
    /\ runRepos = <<>>
    /\ runEnvs = <<>>
    /\ runName = ""
    /\ runValue = ""
    /\ totalOperations = 0
    /\ completedOperations = 0
    /\ operationResults = <<>>
    /\ repoIdx = 0
    /\ envIdx = 0
    /\ pending = NoRequest
    /\ response = NoResponse
    /\ targetLog = <<>>
    /\ ensureReturned = [t \in Targets |-> "none"]
    /\ writesIssued = [t \in Targets |-> 0]
    /\ writeAnswers = [t \in Targets |-> NoResponse]
    /\ lastInvocation = NoInvocation

(***************************************************************************)
(* BulkOperations: selection handlers                                      *)
(***************************************************************************)
runVars == <<pc, runKind, runRepos, runEnvs, runName, runValue, totalOperations, completedOperations,
             operationResults, repoIdx, envIdx, pending, response,
             targetLog, ensureReturned, writesIssued, writeAnswers, lastInvocation>>

\* the checkbox is controlled: it reports the negation of what it shows
handleRepoSelection ==
    \E repoName \in RepoNames :
        LET checked == ~Includes(selectedRepos, repoName) IN
        /\ selectedRepos' = IF checked THEN Append(selectedRepos, repoName)
                            ELSE Without(selectedRepos, repoName)
        /\ UNCHANGED <<selectedEnvironments, isProcessing, progress, results, lastToast, runVars>>
     /\ UNCHANGED notBulkVars

handleEnvSelection ==
    \E envName \in EnvNames :
        LET checked == ~Includes(selectedEnvironments, envName) IN
        /\ selectedEnvironments' = IF checked THEN Append(selectedEnvironments, envName)
                                   ELSE Without(selectedEnvironments, envName)
        /\ UNCHANGED <<selectedRepos, isProcessing, progress, results, lastToast, runVars>>
     /\ UNCHANGED notBulkVars

\* variant: the array of the selection is changed in place, and it is the
\* array the running invocation iterates over
selectAllRepos_InPlace ==
    /\ selectedRepos' = repositories
    /\ runRepos' = IF isProcessing THEN repositories ELSE runRepos
    /\ UNCHANGED <<selectedEnvironments, isProcessing, progress, results, lastToast,
                   pc, runKind, runEnvs, runName, runValue, totalOperations, completedOperations,
                   operationResults, repoIdx, envIdx, pending, response,
                   targetLog, ensureReturned, writesIssued, writeAnswers, lastInvocation>>
    /\ UNCHANGED notBulkVars

\* Select All button of the repositories card
selectAllRepos ==
    /\ selectedRepos' = repositories
    /\ UNCHANGED <<selectedEnvironments, isProcessing, progress, results, lastToast, runVars>>
    /\ UNCHANGED notBulkVars

clearAllRepos ==
    /\ selectedRepos' = <<>>
    /\ UNCHANGED <<selectedEnvironments, isProcessing, progress, results, lastToast, runVars>>
    /\ UNCHANGED notBulkVars

selectAllEnvs ==
    /\ selectedEnvironments' = COMMON_ENVIRONMENTS
    /\ UNCHANGED <<selectedRepos, isProcessing, progress, results, lastToast, runVars>>
    /\ UNCHANGED notBulkVars

clearAllEnvs ==
    /\ selectedEnvironments' = <<>>
    /\ UNCHANGED <<selectedRepos, isProcessing, progress, results, lastToast, runVars>>
    /\ UNCHANGED notBulkVars

\* openBulkOperations(repoName?, envName?) of RepositoryGrid, and the effect
\* of the dialog on [isOpen, preset]: a preset repository or environment
\* replaces the selection, without a preset the selection stays as it was.
\* The component stays mounted, a run that has not ended goes on.
openBulkOperations ==
    /\ ~isBulkOpsOpen
    /\ ~isCreateEnvOpen
    /\ isBulkOpsOpen' = TRUE
    /\ \E preset \in PresetSelections :
        /\ selectedRepos' = IF preset[1] # <<>> THEN preset[1] ELSE selectedRepos
        /\ selectedEnvironments' = IF preset[2] # <<>> THEN preset[2] ELSE selectedEnvironments
    /\ UNCHANGED <<isProcessing, progress, results, lastToast, runVars>>
    /\ UNCHANGED isCreateEnvOpen
    /\ UNCHANGED <<scanVars, overlapVars, ceVars, gridVars, remoteVars, appVars, emVars>>

\* onOpenChange(false) of the Dialog (Escape, a click outside, its close
\* icon), which calls onClose; the Close button is disabled while
\* isProcessing, the Dialog is not
closeBulkOperations ==
    /\ isBulkOpsOpen
    /\ isBulkOpsOpen' = FALSE
    /\ UNCHANGED bulkVars
    /\ UNCHANGED isCreateEnvOpen
    /\ UNCHANGED <<scanVars, overlapVars, ceVars, gridVars, remoteVars, appVars, emVars>>

\* the checkboxes and the Select All / Clear buttons of the two selection
\* cards; they are not disabled while isProcessing
SelectionChanges ==
    /\ isBulkOpsOpen
    /\ \/ handleRepoSelection
       \/ handleEnvSelection
       \/ selectAllRepos
       \/ clearAllRepos
       \/ selectAllEnvs
       \/ clearAllEnvs

\* Reset Form button (disabled while isProcessing)
resetForm ==
    /\ isBulkOpsOpen
    /\ ~isProcessing
    /\ selectedRepos' = <<>>
    /\ selectedEnvironments' = <<>>
    /\ results' = <<>>
    /\ progress' = Zero
    /\ UNCHANGED <<isProcessing, lastToast, runVars>>
    /\ UNCHANGED notBulkVars

(***************************************************************************)
(* BulkOperations: bulkCreateSecrets / bulkCreateVariables                 *)
(***************************************************************************)
\* variant: the fields are tested like the buttons test them, untrimmed
ValidationFails_NoTrim(name, value, repos, envs) ==
    name = "" \/ value = "" \/ Len(repos) = 0 \/ Len(envs) = 0

\* !name.trim() || !value.trim() || selectedRepos.length === 0 ||
\* selectedEnvironments.length === 0
ValidationFails(name, value, repos, envs) ==
    Trim(name) = "" \/ Trim(value) = "" \/ Len(repos) = 0 \/ Len(envs) = 0

\* after the validation, up to the first await: state reset, locals, and the
\* GET of createEnvironmentIfNeeded for the first target
StartRun(kind, name, value) ==
    /\ Len(selectedRepos) * Len(selectedEnvironments) <= MaxTargets
    /\ isProcessing' = TRUE
    /\ progress' = Zero
    /\ results' = <<>>
    /\ runKind' = kind
    /\ runRepos' = selectedRepos
    /\ runEnvs' = selectedEnvironments
    /\ runName' = name
    /\ runValue' = value
    /\ totalOperations' = Len(selectedRepos) * Len(selectedEnvironments)
    /\ completedOperations' = 0
    /\ operationResults' = <<>>
    /\ repoIdx' = 1
    /\ envIdx' = 1
    /\ pc' = "envGet"
    /\ pending' = Request("getEnvironment", selectedRepos[1], selectedEnvironments[1])
    /\ response' = NoResponse
    /\ targetLog' = <<LogEntry(pending')>>
    /\ ensureReturned' = [t \in Targets |-> "none"]
    /\ writesIssued' = [t \in Targets |-> 0]
    /\ writeAnswers' = [t \in Targets |-> NoResponse]
    /\ lastToast' = [title |-> "none", successCount |-> 0, total |-> 0]
    /\ UNCHANGED <<selectedRepos, selectedEnvironments>>

\* variant: the two Create buttons are not disabled while isProcessing
BulkCreate_NotDisabled(kind, fn, name, value) ==
    /\ isBulkOpsOpen
    /\ ~ValidationFails(name, value, selectedRepos, selectedEnvironments)
    /\ lastInvocation' = Invocation(fn, IsBlank(name) \/ IsBlank(value)
                                         \/ selectedRepos = <<>> \/ selectedEnvironments = <<>>)
    /\ StartRun(kind, name, value)
    /\ envFetches' = EarlierRun(envFetches)
    /\ UNCHANGED <<environments, environmentsLoading, onEnvironmentCreated, latestAnswer>>
    /\ UNCHANGED notBulkNorGridVars

\* the handler called with the contents of its two fields, when its first
\* statement does not return: the run starts. Every control that calls the
\* handler is disabled while isProcessing.
BulkCreate(kind, fn, name, value) ==
    /\ isBulkOpsOpen
    /\ ~isProcessing
    /\ ~ValidationFails(name, value, selectedRepos, selectedEnvironments)
    /\ lastInvocation' = Invocation(fn, IsBlank(name) \/ IsBlank(value)
                                         \/ selectedRepos = <<>> \/ selectedEnvironments = <<>>)
    /\ StartRun(kind, name, value)
    /\ envFetches' = EarlierRun(envFetches)
    /\ UNCHANGED <<environments, environmentsLoading, onEnvironmentCreated, latestAnswer>>
    /\ UNCHANGED notBulkNorGridVars

\* the handler called with the contents of its two fields, when its first
\* statement returns
BulkCreateReturnsEarly(fn, name, value) ==
    /\ isBulkOpsOpen
    /\ ~isProcessing
    /\ ValidationFails(name, value, selectedRepos, selectedEnvironments)
    /\ lastInvocation' = Invocation(fn, IsBlank(name) \/ IsBlank(value)
                                         \/ selectedRepos = <<>> \/ selectedEnvironments = <<>>)
    /\ UNCHANGED <<selectedRepos, selectedEnvironments, isProcessing, progress, results,
                   lastToast, pc, runKind, runRepos, runEnvs, runName, runValue,
                   totalOperations, completedOperations, operationResults, repoIdx, envIdx,
                   pending, response, targetLog, ensureReturned, writesIssued, writeAnswers>>
    /\ UNCHANGED notBulkVars

bulkCreateSecretsReturnsEarly ==
    \E secretName \in NameValues, secretValue \in FieldValues :
        BulkCreateReturnsEarly("bulkCreateSecrets", secretName, secretValue)

bulkCreateVariablesReturnsEarly ==
    \E variableName \in NameValues, variableValue \in FieldValues :
        BulkCreateReturnsEarly("bulkCreateVariables", variableName, variableValue)

bulkCreateSecrets ==
    \E secretName \in NameValues, secretValue \in FieldValues :
        BulkCreate("secrets", "bulkCreateSecrets", secretName, secretValue)

bulkCreateVariables ==
    \E variableName \in NameValues, variableValue \in FieldValues :
        BulkCreate("variables", "bulkCreateVariables", variableName, variableValue)

\* the outcomes of the write requests, once `resp` has come for `req`
WriteAnswered(answers, req, resp) ==
    IF req.kind \in {"putSecret", "postVariable"}
    THEN [answers EXCEPT ![<<req.repo, req.env>>] = resp]
    ELSE answers

\* the network settles the request in flight
NetworkResolve ==
    /\ pending # NoRequest
    /\ response = NoResponse
    /\ \E o \in Outcomes :
        /\ response' = o
        /\ targetLog' = [targetLog EXCEPT ![Len(targetLog)].resp = o]
        /\ writeAnswers' = WriteAnswered(writeAnswers, pending, o)
    /\ UNCHANGED <<selectedRepos, selectedEnvironments, isProcessing, progress, results, lastToast,
                   pc, runKind, runRepos, runEnvs, runName, runValue, totalOperations, completedOperations,
                   operationResults, repoIdx, envIdx, pending, ensureReturned, writesIssued>>
    /\ UNCHANGED lastInvocation
    /\ UNCHANGED notBulkVars

\* variant: setIsProcessing(false) is missing after the loop
CompleteTarget_StaysProcessing(res) ==
    /\ operationResults' = res
    /\ completedOperations' = completedOperations + 1
    /\ progress' = Fraction(completedOperations + 1, totalOperations)
    /\ response' = NoResponse
    /\ IF HasNext(repoIdx, envIdx, runRepos, runEnvs)
       THEN /\ repoIdx' = NextRepoIdx(repoIdx, envIdx, runRepos, runEnvs)
            /\ envIdx' = NextEnvIdx(repoIdx, envIdx, runRepos, runEnvs)
            /\ pc' = "envGet"
            /\ pending' = Request("getEnvironment", runRepos[repoIdx'], runEnvs[envIdx'])
            /\ targetLog' = <<LogEntry(pending')>>
            /\ UNCHANGED <<results, isProcessing, lastToast>>
       ELSE /\ pc' = "done"
            /\ pending' = NoRequest
            /\ results' = res
            /\ lastToast' = [title |-> ToastTitle, successCount |-> SuccessCount(res),
                             total |-> totalOperations]
            /\ UNCHANGED <<isProcessing, repoIdx, envIdx, targetLog>>
    /\ UNCHANGED <<selectedRepos, selectedEnvironments, runKind, runRepos, runEnvs, runName, runValue,
                   totalOperations>>

\* the target got its result `res`: count it, report progress, then either
\* enter the next iteration (GET of the next target) or publish the report
CompleteTarget(res) ==
    /\ operationResults' = res
    /\ completedOperations' = completedOperations + 1
    /\ progress' = Fraction(completedOperations + 1, totalOperations)
    /\ response' = NoResponse
    /\ IF HasNext(repoIdx, envIdx, runRepos, runEnvs)
       THEN /\ repoIdx' = NextRepoIdx(repoIdx, envIdx, runRepos, runEnvs)
            /\ envIdx' = NextEnvIdx(repoIdx, envIdx, runRepos, runEnvs)
            /\ pc' = "envGet"
            /\ pending' = Request("getEnvironment", runRepos[repoIdx'], runEnvs[envIdx'])
            /\ targetLog' = <<LogEntry(pending')>>
            /\ UNCHANGED <<results, isProcessing, lastToast>>
       ELSE /\ pc' = "done"
            /\ pending' = NoRequest
            /\ results' = res
            /\ isProcessing' = FALSE
            /\ lastToast' = [title |-> ToastTitle, successCount |-> SuccessCount(res),
                             total |-> totalOperations]
            /\ UNCHANGED <<repoIdx, envIdx, targetLog>>
    /\ UNCHANGED <<selectedRepos, selectedEnvironments, runKind, runRepos, runEnvs, runName, runValue,
                   totalOperations>>

\* variant: the record of the environment failure is not pushed
EnsureReturns_SilentSkip(ok, log) ==
    /\ ensureReturned' = [ensureReturned EXCEPT ![CurrentTarget] = IF ok THEN "true" ELSE "false"]
    /\ IF ~ok
       THEN /\ CompleteTarget(operationResults)
            /\ UNCHANGED writesIssued
       ELSE IF WriteThrows
       THEN /\ CompleteTarget(Append(operationResults,
                                     ExceptionResult(CurrentRepo, CurrentEnv, BtoaMessage)))
            /\ UNCHANGED writesIssued
       ELSE /\ pc' = "write"
            /\ pending' = Request(WriteKind, CurrentRepo, CurrentEnv)
            /\ response' = NoResponse
            /\ targetLog' = Append(log, LogEntry(pending'))
            /\ writesIssued' = [writesIssued EXCEPT ![CurrentTarget] = @ + 1]
            /\ UNCHANGED <<selectedRepos, selectedEnvironments, isProcessing, progress, results,
                           lastToast, runKind, runRepos, runEnvs, runName, runValue, totalOperations,
                           completedOperations, operationResults, repoIdx, envIdx>>

\* variant: the `if (!envCreated)` branch is missing, the write is always issued
EnsureReturns_AlwaysWrite(ok, log) ==
    /\ ensureReturned' = [ensureReturned EXCEPT ![CurrentTarget] = IF ok THEN "true" ELSE "false"]
    /\ IF WriteThrows
       THEN /\ CompleteTarget(Append(operationResults,
                                     ExceptionResult(CurrentRepo, CurrentEnv, BtoaMessage)))
            /\ UNCHANGED writesIssued
       ELSE /\ pc' = "write"
            /\ pending' = Request(WriteKind, CurrentRepo, CurrentEnv)
            /\ response' = NoResponse
            /\ targetLog' = Append(log, LogEntry(pending'))
            /\ writesIssued' = [writesIssued EXCEPT ![CurrentTarget] = @ + 1]
            /\ UNCHANGED <<selectedRepos, selectedEnvironments, isProcessing, progress, results,
                           lastToast, runKind, runRepos, runEnvs, runName, runValue, totalOperations,
                           completedOperations, operationResults, repoIdx, envIdx>>

\* createEnvironmentIfNeeded returned `ok` to the loop body; `log` is the
\* target's log up to the return
EnsureReturns(ok, log) ==
    /\ ensureReturned' = [ensureReturned EXCEPT ![CurrentTarget] = IF ok THEN "true" ELSE "false"]
    /\ IF ~ok
       THEN /\ CompleteTarget(Append(operationResults, EnvFailureResult(CurrentRepo, CurrentEnv)))
            /\ UNCHANGED writesIssued
       ELSE IF WriteThrows
       THEN /\ CompleteTarget(Append(operationResults,
                                     ExceptionResult(CurrentRepo, CurrentEnv, BtoaMessage)))
            /\ UNCHANGED writesIssued
       ELSE /\ pc' = "write"
            /\ pending' = Request(WriteKind, CurrentRepo, CurrentEnv)
            /\ response' = NoResponse
            /\ targetLog' = Append(log, LogEntry(pending'))
            /\ writesIssued' = [writesIssued EXCEPT ![CurrentTarget] = @ + 1]
            /\ UNCHANGED <<selectedRepos, selectedEnvironments, isProcessing, progress, results,
                           lastToast, runKind, runRepos, runEnvs, runName, runValue, totalOperations,
                           completedOperations, operationResults, repoIdx, envIdx>>

\* continuation of createEnvironmentIfNeeded after the GET
AfterEnvCheck ==
    /\ pc = "envGet"
    /\ response # NoResponse
    /\ IF NeedsCreate(response)
       THEN /\ pc' = "envPut"
            /\ pending' = Request("putEnvironment", CurrentRepo, CurrentEnv)
            /\ response' = NoResponse
            /\ targetLog' = Append(targetLog, LogEntry(pending'))
            /\ UNCHANGED <<selectedRepos, selectedEnvironments, isProcessing, progress, results,
                           lastToast, runKind, runRepos, runEnvs, runName, runValue, totalOperations,
                           completedOperations, operationResults, repoIdx, envIdx,
                           ensureReturned, writesIssued>>
       ELSE EnsureReturns(EnsureAfterCheck(response), targetLog)
    /\ UNCHANGED <<lastInvocation, writeAnswers>>
    /\ UNCHANGED notBulkVars

\* continuation of createEnvironmentIfNeeded after the PUT
AfterEnvCreate ==
    /\ pc = "envPut"
    /\ response # NoResponse
    /\ EnsureReturns(EnsureAfterCreate(response),
                     IF Ok(response)
                     THEN Append(targetLog, LogEntry(Request("onEnvironmentCreated", CurrentRepo, CurrentEnv)))
                     ELSE targetLog)
    /\ IF Ok(response) THEN CallOnEnvironmentCreated("bulkCreate") ELSE UNCHANGED gridVars
    /\ UNCHANGED <<lastInvocation, writeAnswers>>
    /\ UNCHANGED notBulkNorGridVars

\* variant: no try/catch around the write, a rejected fetch ends the function
\* and what was collected so far is published
AfterWrite_AbortOnError ==
    /\ pc = "write"
    /\ response # NoResponse
    /\ IF response.type = "error"
       THEN /\ pc' = "done"
            /\ pending' = NoRequest
            /\ response' = NoResponse
            /\ results' = operationResults
            /\ isProcessing' = FALSE
            /\ UNCHANGED <<selectedRepos, selectedEnvironments, progress, lastToast, runKind,
                           runRepos, runEnvs, runName, runValue, totalOperations, completedOperations,
                           operationResults, repoIdx, envIdx, targetLog>>
       ELSE CompleteTarget(Append(operationResults, WriteResult(CurrentRepo, CurrentEnv, response)))
    /\ UNCHANGED <<ensureReturned, writesIssued>>
    /\ UNCHANGED <<lastInvocation, writeAnswers>>
    /\ UNCHANGED notBulkVars

\* continuation of the loop body after the write request
AfterWrite ==
    /\ pc = "write"
    /\ response # NoResponse
    /\ CompleteTarget(Append(operationResults, WriteResult(CurrentRepo, CurrentEnv, response)))
    /\ UNCHANGED <<ensureReturned, writesIssued>>
    /\ UNCHANGED <<lastInvocation, writeAnswers>>
    /\ UNCHANGED notBulkVars

\* largest number of targets of a run started while the selection controls
\* are followed
MaxDialogTargets == 2

\* the dialog with all its controls: opened and closed from the grid, the
\* selection changed at any time, runs of up to MaxDialogTargets targets
NextDialog ==
    \/ openBulkOperations
    \/ closeBulkOperations
    \/ SelectionChanges
    \/ resetForm
    \/ (Len(selectedRepos) * Len(selectedEnvironments) <= MaxDialogTargets /\ bulkCreateSecrets)
    \/ (Len(selectedRepos) * Len(selectedEnvironments) <= MaxDialogTargets /\ bulkCreateVariables)
    \/ NetworkResolve
    \/ AfterEnvCheck
    \/ AfterEnvCreate
    \/ AfterWrite

NextBulk ==
    \/ resetForm
    \/ bulkCreateSecrets
    \/ bulkCreateVariables
    \/ NetworkResolve
    \/ AfterEnvCheck
    \/ AfterEnvCreate
    \/ AfterWrite

(***************************************************************************)
(* CreateEnvironmentDialog: createEnvironments                             *)
(***************************************************************************)
\* contents of the environment name field (the field lower-cases its input)
EnvNameValues == {"", " ", "qa"}

\* the dialog as it is when `selection` has been made and nothing was run
InitCreateEnv(selection) ==
    /\ ceSelectedRepos = selection
    /\ isCreating = FALSE
    /\ ceProgress = Zero
    /\ ceResults = <<>>
    /\ ceToast = [title |-> "none", successCount |-> 0, total |-> 0]
    /\ cePc = "idle"
    /\ ceRunRepos = <<>>
    /\ ceRunName = ""
    /\ ceTotalOperations = 0
    /\ ceCompletedOperations = 0
    /\ creationResults = <<>>
    /\ ceIdx = 0
    /\ cePending = NoRequest
    /\ ceResponse = NoResponse
    /\ ceLastInvocation = NoInvocation

\* !environmentName.trim() || selectedRepos.length === 0
CreateEnvValidationFails(name, repos) == Trim(name) = "" \/ Len(repos) = 0

\* the CreationResult pushed once the PUT settled: from the response, or from
\* the catch block when fetch rejected
CreationResult(repo, resp) ==
    IF resp.type = "error"
    THEN [repo |-> repo, success |-> FALSE, error |-> resp.message]
    ELSE [repo |-> repo, success |-> Ok(resp),
          error |-> IF Ok(resp) THEN Undefined ELSE StatusText(resp.status)]

\* the handler called with the content of the name field: the early return,
\* or the run up to its first await (the PUT for the first repository).
\* The Create button is disabled while isCreating.
createEnvironments ==
    \E environmentName \in EnvNameValues :
        /\ isCreateEnvOpen
        /\ ~isCreating
        /\ ceLastInvocation' = Invocation("createEnvironments",
                                          IsBlank(environmentName) \/ ceSelectedRepos = <<>>)
        /\ IF CreateEnvValidationFails(environmentName, ceSelectedRepos)
           THEN UNCHANGED <<ceSelectedRepos, isCreating, ceProgress, ceResults, ceToast, cePc,
                            ceRunRepos, ceRunName, ceTotalOperations, ceCompletedOperations,
                            creationResults, ceIdx, cePending, ceResponse>>
           ELSE /\ isCreating' = TRUE
                /\ ceProgress' = Zero
                /\ ceResults' = <<>>
                /\ ceRunRepos' = ceSelectedRepos
                /\ ceRunName' = environmentName
                /\ ceTotalOperations' = Len(ceSelectedRepos)
                /\ ceCompletedOperations' = 0
                /\ creationResults' = <<>>
                /\ ceIdx' = 1
                /\ cePc' = "put"
                /\ cePending' = Request("putEnvironment", ceSelectedRepos[1], environmentName)
                /\ ceResponse' = NoResponse
                /\ ceToast' = [title |-> "none", successCount |-> 0, total |-> 0]
                /\ UNCHANGED ceSelectedRepos
        /\ UNCHANGED notCeVars

\* the network settles the PUT in flight
CreateEnvResolve ==
    /\ cePending # NoRequest
    /\ ceResponse = NoResponse
    /\ \E o \in Outcomes : ceResponse' = o
    /\ UNCHANGED <<ceSelectedRepos, isCreating, ceProgress, ceResults, ceToast, cePc, ceRunRepos,
                   ceRunName, ceTotalOperations, ceCompletedOperations, creationResults, ceIdx,
                   cePending, ceLastInvocation>>
    /\ UNCHANGED notCeVars

\* continuation of the loop after the PUT: record the result, report the
\* progress, then the PUT for the next repository, or the publication
AfterCreatePut ==
    /\ cePc = "put"
    /\ ceResponse # NoResponse
    /\ LET res == Append(creationResults, CreationResult(ceRunRepos[ceIdx], ceResponse)) IN
        /\ creationResults' = res
        /\ ceCompletedOperations' = ceCompletedOperations + 1
        /\ ceProgress' = Fraction(ceCompletedOperations + 1, ceTotalOperations)
        /\ ceResponse' = NoResponse
        /\ IF ceIdx < Len(ceRunRepos)
           THEN /\ ceIdx' = ceIdx + 1
                /\ cePending' = Request("putEnvironment", ceRunRepos[ceIdx + 1], ceRunName)
                /\ UNCHANGED <<cePc, ceResults, isCreating, ceToast>>
                /\ UNCHANGED gridVars
           ELSE /\ cePc' = "done"
                /\ cePending' = NoRequest
                /\ ceResults' = res
                /\ isCreating' = FALSE
                /\ ceToast' = [title |-> "Environment Creation Complete",
                               successCount |-> SuccessCount(res), total |-> ceTotalOperations]
                /\ CallOnEnvironmentCreated("createEnvironments")
                /\ UNCHANGED ceIdx
    /\ UNCHANGED <<ceSelectedRepos, ceRunRepos, ceRunName, ceTotalOperations, ceLastInvocation>>
    /\ UNCHANGED notCeNorGridVars

\* Reset Form button of the dialog (disabled while isCreating)
resetCreateEnvForm ==
    /\ isCreateEnvOpen
    /\ ~isCreating
    /\ ceSelectedRepos' = <<>>
    /\ ceResults' = <<>>
    /\ ceProgress' = Zero
    /\ UNCHANGED <<isCreating, ceToast, cePc, ceRunRepos, ceRunName, ceTotalOperations,
                   ceCompletedOperations, creationResults, ceIdx, cePending, ceResponse,
                   ceLastInvocation>>
    /\ UNCHANGED notCeVars

NextCreateEnv ==
    \/ createEnvironments
    \/ CreateEnvResolve
    \/ AfterCreatePut
    \/ resetCreateEnvForm

(***************************************************************************)
(* GlobalSecretsList: fetchAllSecretsAndVariables                          *)
(***************************************************************************)
\* names of the secrets and variables the remote may list
EntryNames == {"TOKEN", "API_KEY"}
\* the value the remote reports for a variable
VariableValue == "v"

\* sequences of at most n elements of S
SeqsUpTo(S, n) == UNION {[1..m -> S] : m \in 0..n}
Min(a, b) == IF a < b THEN a ELSE b

\* what the remote can answer to a list request while it may still list
\* `budget` entries: a non-2xx status, a transport error, a 2xx whose body
\* is not JSON, or a 2xx with a list of names (repetitions included)
ListOutcomes(budget) ==
    {[type |-> "http", status |-> st, valid |-> TRUE, body |-> <<>>] : st \in Statuses \ {200}}
    \cup {[type |-> "error", status |-> 0, valid |-> FALSE, body |-> <<>>]}
    \cup {[type |-> "http", status |-> 200, valid |-> FALSE, body |-> <<>>]}
    \cup {[type |-> "http", status |-> 200, valid |-> TRUE, body |-> b] :
             b \in SeqsUpTo(EntryNames, Min(MaxListLen, budget))}

\* the answers of a remote that answers every list request with 200 and a
\* list of at most one entry, while it may still list `budget` entries
SmallListOutcomes(budget) ==
    {[type |-> "http", status |-> 200, valid |-> TRUE, body |-> b] :
        b \in SeqsUpTo({"TOKEN"}, Min(1, budget))}

\* the request settled with a body the forEach runs over
ListSucceeded(resp) == resp.type = "http" /\ Ok(resp) /\ resp.valid

SecretLocationOf(repo, env) == [repository |-> repo, environment |-> env]
VariableLocationOf(repo, env) == [repository |-> repo, environment |-> env, value |-> VariableValue]

\* one step of the forEach: create the entry on first sighting, push `loc`
AddLocation(map, name, loc) ==
    LET base == IF name \in DOMAIN map THEN map
                ELSE [n \in DOMAIN map \cup {name} |->
                         IF n = name THEN [name |-> name, locations |-> <<>>, missingIn |-> <<>>]
                         ELSE map[n]]
    IN [base EXCEPT ![name].locations = Append(@, loc)]

\* names.forEach(...) in list order
RECURSIVE AddAll(_, _, _)
AddAll(map, names, loc) ==
    IF names = <<>> THEN map
    ELSE AddAll(AddLocation(map, Head(names), loc), Tail(names), loc)

\* repositories.flatMap((repo) => COMMON_ENVIRONMENTS.map((env) => ...))
RECURSIVE FlatMapLocations(_, _)
FlatMapLocations(repos, envs) ==
    IF repos = <<>> THEN <<>>
    ELSE [k \in 1..Len(envs) |-> [repository |-> repos[1], environment |-> envs[k]]]
         \o FlatMapLocations(Tail(repos), envs)

allLocations == FlatMapLocations(repositories, SCAN_COMMON_ENVIRONMENTS)

\* `${loc.repository}:${loc.environment}`; repository and environment names
\* of the model contain no ":", so the key is kept as the pair
LocationKey(loc) == <<loc.repository, loc.environment>>

\* the Set of keys of an entry's locations
ExistingLocations(entry) == {LocationKey(entry.locations[k]) : k \in 1..Len(entry.locations)}

\* variant: no filter, every location of the grid is reported missing
MissingIn_NoFilter(entry) == allLocations

\* allLocations.filter((loc) => !existingLocations.has(key(loc)))
MissingIn(entry) ==
    SelectSeq(allLocations, LAMBDA loc : LocationKey(loc) \notin ExistingLocations(entry))

\* map.forEach((e) => { e.missingIn = ... })
WithMissing(map) == [n \in DOMAIN map |-> [map[n] EXCEPT !.missingIn = MissingIn(map[n])]]

EmptyMap == [n \in {} |-> <<>>]

\* no invocation, or one that has returned
NoScan ==
    [pc |-> "idle", repoIdx |-> 0, envIdx |-> 0, newSecretsMap |-> EmptyMap,
     newVariablesMap |-> EmptyMap, pending |-> NoRequest, response |-> NoResponse,
     listed |-> {}]

\* what the answer `resp` to the list request `req` lists
Listed(req, resp) ==
    IF ListSucceeded(resp)
    THEN {<<req.kind, resp.body[k], req.repo, req.env>> : k \in 1..Len(resp.body)}
    ELSE {}

ScanRepo == repositories[scanRepoIdx]
ScanEnv == SCAN_COMMON_ENVIRONMENTS[scanEnvIdx]

InitScan ==
    /\ isGlobalListOpen = FALSE
    /\ secretsMap = EmptyMap
    /\ variablesMap = EmptyMap
    /\ loading = FALSE
    /\ scanPc = "idle"
    /\ scanRepoIdx = 0
    /\ scanEnvIdx = 0
    /\ newSecretsMap = EmptyMap
    /\ newVariablesMap = EmptyMap
    /\ scanPending = NoRequest
    /\ scanResponse = NoResponse
    /\ scanIssued = <<>>
    /\ firstFailure = NoRequest
    /\ entriesSeen = 0
    /\ earlierScan = NoScan
    /\ scanListed = {}
    /\ publishedListed = {}

\* "Global Overview" button of RepositoryGrid; the effect on isOpen starts
\* fetchAllSecretsAndVariables, which runs up to its first await
openGlobalList ==
    /\ ~isGlobalListOpen
    /\ scanPc = "idle"
    /\ isGlobalListOpen' = TRUE
    /\ loading' = TRUE
    /\ newSecretsMap' = EmptyMap
    /\ newVariablesMap' = EmptyMap
    /\ firstFailure' = NoRequest
    /\ IF Len(repositories) = 0 \/ Len(SCAN_COMMON_ENVIRONMENTS) = 0
       THEN /\ secretsMap' = EmptyMap
            /\ variablesMap' = EmptyMap
            /\ scanIssued' = <<>>
            /\ UNCHANGED <<scanPc, scanRepoIdx, scanEnvIdx, scanPending, scanResponse>>
       ELSE /\ scanPc' = "secrets"
            /\ scanRepoIdx' = 1
            /\ scanEnvIdx' = 1
            /\ scanPending' = Request("listSecrets", repositories[1], SCAN_COMMON_ENVIRONMENTS[1])
            /\ scanResponse' = NoResponse
            /\ scanIssued' = <<scanPending'>>
            /\ UNCHANGED <<secretsMap, variablesMap>>
    /\ UNCHANGED entriesSeen
    /\ scanListed' = {}
    /\ publishedListed' = IF scanPc' = "idle" THEN {} ELSE publishedListed
    /\ UNCHANGED earlierScan
    /\ UNCHANGED notScanVars

\* onClose of the dialog
closeGlobalList ==
    /\ isGlobalListOpen
    /\ isGlobalListOpen' = FALSE
    /\ UNCHANGED <<secretsMap, variablesMap, loading, scanPc, scanRepoIdx, scanEnvIdx,
                   newSecretsMap, newVariablesMap, scanPending, scanResponse, scanIssued,
                   firstFailure, entriesSeen>>
    /\ UNCHANGED overlapVars
    /\ UNCHANGED notScanVars

\* the list request in flight settles with one of `outcomes`
ScanSettles(outcomes) ==
    /\ scanPending # NoRequest
    /\ scanResponse = NoResponse
    /\ \E o \in outcomes :
        /\ scanResponse' = o
        /\ entriesSeen' = entriesSeen + Len(o.body)
        /\ firstFailure' = IF firstFailure = NoRequest /\ ~ListSucceeded(o)
                           THEN scanPending ELSE firstFailure
        /\ scanListed' = scanListed \cup Listed(scanPending, o)
    /\ UNCHANGED <<isGlobalListOpen, secretsMap, variablesMap, loading, scanPc, scanRepoIdx,
                   scanEnvIdx, newSecretsMap, newVariablesMap, scanPending, scanIssued>>
    /\ UNCHANGED <<earlierScan, publishedListed>>
    /\ UNCHANGED notScanVars

\* the network settles the list request in flight
ScanResolve == ScanSettles(ListOutcomes(MaxEntries - entriesSeen))

\* the secrets of the pair as they are merged into newSecretsMap: nothing
\* when the request failed (not ok, rejected, or json() threw)
SecretsAfter(map, resp, repo, env) ==
    IF ListSucceeded(resp) THEN AddAll(map, resp.body, SecretLocationOf(repo, env)) ELSE map

VariablesAfter(map, resp, repo, env) ==
    IF ListSucceeded(resp) THEN AddAll(map, resp.body, VariableLocationOf(repo, env)) ELSE map

\* variant: no inner try/catch, a rejected secrets request reaches the outer
\* catch and the scan ends without publishing
AfterSecretsList_Fatal ==
    /\ scanPc = "secrets"
    /\ scanResponse # NoResponse
    /\ scanResponse' = NoResponse
    /\ IF scanResponse.type = "error"
       THEN /\ scanPc' = "idle"
            /\ scanPending' = NoRequest
            /\ loading' = FALSE
            /\ UNCHANGED <<newSecretsMap, scanIssued>>
       ELSE /\ newSecretsMap' = SecretsAfter(newSecretsMap, scanResponse, ScanRepo, ScanEnv)
            /\ scanPc' = "variables"
            /\ scanPending' = Request("listVariables", ScanRepo, ScanEnv)
            /\ scanIssued' = Append(scanIssued, scanPending')
            /\ UNCHANGED loading
    /\ UNCHANGED <<isGlobalListOpen, secretsMap, variablesMap, scanRepoIdx, scanEnvIdx,
                   newVariablesMap, firstFailure, entriesSeen>>
    /\ UNCHANGED overlapVars
    /\ UNCHANGED notScanVars

\* variant: a secrets list request that failed is issued again
AfterSecretsList_RetriesOnFailure ==
    /\ scanPc = "secrets"
    /\ scanResponse # NoResponse
    /\ scanResponse' = NoResponse
    /\ IF ~ListSucceeded(scanResponse) /\ Len(scanIssued) < 2 * Len(repositories) * Len(SCAN_COMMON_ENVIRONMENTS)
       THEN /\ scanPending' = Request("listSecrets", ScanRepo, ScanEnv)
            /\ scanIssued' = Append(scanIssued, scanPending')
            /\ UNCHANGED <<newSecretsMap, scanPc>>
       ELSE /\ newSecretsMap' = SecretsAfter(newSecretsMap, scanResponse, ScanRepo, ScanEnv)
            /\ scanPc' = "variables"
            /\ scanPending' = Request("listVariables", ScanRepo, ScanEnv)
            /\ scanIssued' = Append(scanIssued, scanPending')
    /\ UNCHANGED <<isGlobalListOpen, secretsMap, variablesMap, loading, scanRepoIdx, scanEnvIdx,
                   newVariablesMap, firstFailure, entriesSeen>>
    /\ UNCHANGED overlapVars
    /\ UNCHANGED notScanVars

\* continuation after the secrets list of the pair: merge, then request the
\* variables of the same pair
AfterSecretsList ==
    /\ scanPc = "secrets"
    /\ scanResponse # NoResponse
    /\ newSecretsMap' = SecretsAfter(newSecretsMap, scanResponse, ScanRepo, ScanEnv)
    /\ scanPc' = "variables"
    /\ scanPending' = Request("listVariables", ScanRepo, ScanEnv)
    /\ scanResponse' = NoResponse
    /\ scanIssued' = Append(scanIssued, scanPending')
    /\ UNCHANGED <<isGlobalListOpen, secretsMap, variablesMap, loading, scanRepoIdx, scanEnvIdx,
                   newVariablesMap, firstFailure, entriesSeen>>
    /\ UNCHANGED overlapVars
    /\ UNCHANGED notScanVars

\* continuation after the variables list of the pair: merge, then either the
\* secrets request of the next pair, or the missingIn computation and the
\* publication of both maps
AfterVariablesList ==
    /\ scanPc = "variables"
    /\ scanResponse # NoResponse
    /\ scanResponse' = NoResponse
    /\ LET merged == VariablesAfter(newVariablesMap, scanResponse, ScanRepo, ScanEnv) IN
       IF HasNext(scanRepoIdx, scanEnvIdx, repositories, SCAN_COMMON_ENVIRONMENTS)
       THEN /\ newVariablesMap' = merged
            /\ scanRepoIdx' = NextRepoIdx(scanRepoIdx, scanEnvIdx, repositories, SCAN_COMMON_ENVIRONMENTS)
            /\ scanEnvIdx' = NextEnvIdx(scanRepoIdx, scanEnvIdx, repositories, SCAN_COMMON_ENVIRONMENTS)
            /\ scanPc' = "secrets"
            /\ scanPending' = Request("listSecrets", repositories[scanRepoIdx'],
                                      SCAN_COMMON_ENVIRONMENTS[scanEnvIdx'])
            /\ scanIssued' = Append(scanIssued, scanPending')
            /\ UNCHANGED <<secretsMap, variablesMap, loading, newSecretsMap, publishedListed>>
       ELSE /\ newSecretsMap' = WithMissing(newSecretsMap)
            /\ newVariablesMap' = WithMissing(merged)
            /\ secretsMap' = newSecretsMap'
            /\ variablesMap' = newVariablesMap'
            /\ loading' = FALSE
            /\ scanPc' = "idle"
            /\ scanPending' = NoRequest
            /\ publishedListed' = scanListed
            /\ UNCHANGED <<scanRepoIdx, scanEnvIdx, scanIssued>>
    /\ UNCHANGED <<isGlobalListOpen, firstFailure, entriesSeen>>
    /\ UNCHANGED <<earlierScan, scanListed>>
    /\ UNCHANGED notScanVars

\* variant: the maps are created once and shared by the invocations, the
\* new invocation goes on filling the maps of the one before
reopenGlobalList_SharedMaps ==
    /\ ~isGlobalListOpen
    /\ scanPc # "idle"
    /\ earlierScan.pc = "idle"
    /\ earlierScan' = [pc |-> scanPc, repoIdx |-> scanRepoIdx, envIdx |-> scanEnvIdx,
                       newSecretsMap |-> newSecretsMap, newVariablesMap |-> newVariablesMap,
                       pending |-> scanPending, response |-> scanResponse,
                       listed |-> scanListed]
    /\ isGlobalListOpen' = TRUE
    /\ loading' = TRUE
    /\ UNCHANGED <<newSecretsMap, newVariablesMap>>
    /\ scanPc' = "secrets"
    /\ scanRepoIdx' = 1
    /\ scanEnvIdx' = 1
    /\ scanPending' = Request("listSecrets", repositories[1], SCAN_COMMON_ENVIRONMENTS[1])
    /\ scanResponse' = NoResponse
    /\ scanIssued' = <<scanPending'>>
    /\ firstFailure' = NoRequest
    /\ scanListed' = {}
    /\ UNCHANGED <<secretsMap, variablesMap, entriesSeen, publishedListed>>
    /\ UNCHANGED notScanVars

\* "Global Overview" clicked again after the dialog was closed while its
\* invocation was still awaiting: the effect starts a second invocation with
\* maps of its own, the first one goes on in the background. The model
\* follows two invocations at a time.
reopenGlobalList ==
    /\ ~isGlobalListOpen
    /\ scanPc # "idle"
    /\ earlierScan.pc = "idle"
    /\ earlierScan' = [pc |-> scanPc, repoIdx |-> scanRepoIdx, envIdx |-> scanEnvIdx,
                       newSecretsMap |-> newSecretsMap, newVariablesMap |-> newVariablesMap,
                       pending |-> scanPending, response |-> scanResponse,
                       listed |-> scanListed]
    /\ isGlobalListOpen' = TRUE
    /\ loading' = TRUE
    /\ newSecretsMap' = EmptyMap
    /\ newVariablesMap' = EmptyMap
    /\ scanPc' = "secrets"
    /\ scanRepoIdx' = 1
    /\ scanEnvIdx' = 1
    /\ scanPending' = Request("listSecrets", repositories[1], SCAN_COMMON_ENVIRONMENTS[1])
    /\ scanResponse' = NoResponse
    /\ scanIssued' = <<scanPending'>>
    /\ firstFailure' = NoRequest
    /\ scanListed' = {}
    /\ UNCHANGED <<secretsMap, variablesMap, entriesSeen, publishedListed>>
    /\ UNCHANGED notScanVars

\* the remote answers the list request of the running invocation
ScanResolveSmall == ScanSettles(SmallListOutcomes(MaxEntries - entriesSeen))

\* the remote answers the list request of the earlier invocation
EarlierScanResolve ==
    /\ earlierScan.pending # NoRequest
    /\ earlierScan.response = NoResponse
    /\ \E o \in SmallListOutcomes(MaxEntries - entriesSeen) :
        /\ earlierScan' = [earlierScan EXCEPT !.response = o,
                                              !.listed = @ \cup Listed(earlierScan.pending, o)]
        /\ entriesSeen' = entriesSeen + Len(o.body)
    /\ UNCHANGED <<isGlobalListOpen, secretsMap, variablesMap, loading, scanPc, scanRepoIdx,
                   scanEnvIdx, newSecretsMap, newVariablesMap, scanPending, scanResponse,
                   scanIssued, firstFailure>>
    /\ UNCHANGED <<scanListed, publishedListed>>
    /\ UNCHANGED notScanVars

\* the continuations of the earlier invocation, on its own maps: after the
\* secrets list, and after the variables list (next pair, or publication)
EarlierScanContinues ==
    /\ earlierScan.response # NoResponse
    /\ LET e == earlierScan
           repo == repositories[e.repoIdx]
           env == SCAN_COMMON_ENVIRONMENTS[e.envIdx]
           merged == VariablesAfter(e.newVariablesMap, e.response, repo, env)
       IN
       IF e.pc = "secrets"
       THEN /\ earlierScan' = [e EXCEPT !.newSecretsMap = SecretsAfter(@, e.response, repo, env),
                                        !.pc = "variables",
                                        !.pending = Request("listVariables", repo, env),
                                        !.response = NoResponse]
            /\ UNCHANGED <<secretsMap, variablesMap, loading, publishedListed>>
       ELSE IF HasNext(e.repoIdx, e.envIdx, repositories, SCAN_COMMON_ENVIRONMENTS)
       THEN /\ earlierScan' =
                [e EXCEPT !.newVariablesMap = merged,
                          !.repoIdx = NextRepoIdx(e.repoIdx, e.envIdx, repositories, SCAN_COMMON_ENVIRONMENTS),
                          !.envIdx = NextEnvIdx(e.repoIdx, e.envIdx, repositories, SCAN_COMMON_ENVIRONMENTS),
                          !.pc = "secrets",
                          !.pending = Request("listSecrets",
                              repositories[NextRepoIdx(e.repoIdx, e.envIdx, repositories, SCAN_COMMON_ENVIRONMENTS)],
                              SCAN_COMMON_ENVIRONMENTS[NextEnvIdx(e.repoIdx, e.envIdx, repositories, SCAN_COMMON_ENVIRONMENTS)]),
                          !.response = NoResponse]
            /\ UNCHANGED <<secretsMap, variablesMap, loading, publishedListed>>
       ELSE /\ secretsMap' = WithMissing(e.newSecretsMap)
            /\ variablesMap' = WithMissing(merged)
            /\ loading' = FALSE
            /\ publishedListed' = e.listed
            /\ earlierScan' = NoScan
    /\ UNCHANGED <<isGlobalListOpen, scanPc, scanRepoIdx, scanEnvIdx, newSecretsMap,
                   newVariablesMap, scanPending, scanResponse, scanIssued, firstFailure,
                   entriesSeen, scanListed>>
    /\ UNCHANGED notScanVars

NextOverlap ==
    \/ openGlobalList
    \/ closeGlobalList
    \/ reopenGlobalList
    \/ ScanResolveSmall
    \/ AfterSecretsList
    \/ AfterVariablesList
    \/ EarlierScanResolve
    \/ EarlierScanContinues

NextScan ==
    \/ openGlobalList
    \/ closeGlobalList
    \/ ScanResolve
    \/ AfterSecretsList
    \/ AfterVariablesList

(***************************************************************************)
(* A remote with upsert semantics                                          *)
(***************************************************************************)

\* how many invocations the model starts against the remote
MaxRuns == 2

\* the remote of the specifications that let the network answer anything
InitRemote ==
    /\ remoteEnvironments = {}
    /\ remoteSecrets = {}
    /\ runsStarted = 0

\* the answer of the remote to a request of the run: GET of an environment
\* is 200 or 404, PUT of an environment creates or updates it (200), PUT of
\* a secret creates it (201) or updates it (204)
RemoteAnswer(req) ==
    CASE req.kind = "getEnvironment" ->
            IF <<req.repo, req.env>> \in remoteEnvironments
            THEN HttpResponse(200) ELSE HttpResponse(404)
      [] req.kind = "putEnvironment" -> HttpResponse(200)
      [] OTHER ->
            IF <<req.repo, req.env, runName>> \in remoteSecrets
            THEN HttpResponse(204) ELSE HttpResponse(201)

\* the request in flight reaches the remote and is answered
RemoteResolve ==
    /\ pending # NoRequest
    /\ response = NoResponse
    /\ response' = RemoteAnswer(pending)
    /\ targetLog' = [targetLog EXCEPT ![Len(targetLog)].resp = response']
    /\ writeAnswers' = WriteAnswered(writeAnswers, pending, response')
    /\ remoteEnvironments' =
            IF pending.kind = "putEnvironment"
            THEN remoteEnvironments \cup {<<pending.repo, pending.env>>}
            ELSE remoteEnvironments
    /\ remoteSecrets' =
            IF pending.kind = "putSecret" /\ Ok(response')
            THEN remoteSecrets \cup {<<pending.repo, pending.env, runName>>}
            ELSE remoteSecrets
    /\ UNCHANGED <<selectedRepos, selectedEnvironments, isProcessing, progress, results, lastToast,
                   pc, runKind, runRepos, runEnvs, runName, runValue, totalOperations, completedOperations,
                   operationResults, repoIdx, envIdx, pending, ensureReturned, writesIssued>>
    /\ UNCHANGED <<lastInvocation, runsStarted>>
    /\ UNCHANGED <<scanVars, overlapVars, dialogVars, ceVars, gridVars, appVars, emVars>>

\* the first Create Secrets click on the dialog
FirstRun ==
    /\ runsStarted = 0
    /\ runsStarted' = 1
    /\ \E secretName \in NameValues, secretValue \in FieldValues :
        /\ ~ValidationFails(secretName, secretValue, selectedRepos, selectedEnvironments)
        /\ lastInvocation' = Invocation("bulkCreateSecrets", FALSE)
        /\ StartRun("secrets", secretName, secretValue)
    /\ UNCHANGED <<remoteEnvironments, remoteSecrets>>
    /\ UNCHANGED <<scanVars, overlapVars, dialogVars, ceVars, gridVars, appVars, emVars>>

\* the fields typed again as they were and Create Secrets clicked again, the
\* selection left as it was (the fields are emptied by a successful run)
SameRunAgain ==
    /\ pc = "done"
    /\ runsStarted >= 1
    /\ runsStarted < MaxRuns
    /\ runsStarted' = runsStarted + 1
    /\ lastInvocation' = Invocation("bulkCreateSecrets", FALSE)
    /\ StartRun("secrets", runName, runValue)
    /\ UNCHANGED <<remoteEnvironments, remoteSecrets>>
    /\ UNCHANGED <<scanVars, overlapVars, dialogVars, ceVars, gridVars, appVars, emVars>>

(***************************************************************************)
(* App: the token, the organizations and the view                         *)
(***************************************************************************)

\* what can be typed into the field of TokenInput
TokenFieldValues == {"", " ", "ghp_a", "ghp_b"}
\* the bodies of the answers to GET /user/orgs (logins)
OrganizationLists == {<<>>, <<"acme">>, <<"acme", "globex">>}
\* useState<Organization | null>(null)
NoOrg == "null"

\* what fetchOrganizations sees: an ok response with its list, or a response
\* that is not ok or a rejected fetch (both reach the catch)
OrgOutcomes ==
    {[ok |-> TRUE, orgs |-> l] : l \in OrganizationLists} \cup {[ok |-> FALSE, orgs |-> <<>>]}

NoOrgResponse == [ok |-> FALSE, orgs |-> <<"none">>]

\* the conditional rendering of <main>
View ==
    IF token = "" THEN "TokenInput"
    ELSE IF selectedOrg = NoOrg THEN "OrganizationSelector"
    ELSE "RepositoryGrid"

\* the page as it is loaded
InitApp ==
    /\ token = ""
    /\ organizations = <<>>
    /\ selectedOrg = NoOrg
    /\ appLoading = FALSE
    /\ orgPending = FALSE
    /\ orgResponse = NoOrgResponse
    /\ persistentStorage = {}
    /\ lastHandler = "none"

\* the page once an organization was selected: RepositoryGrid is shown
InitSignedIn ==
    /\ token = "ghp_a"
    /\ organizations = <<"acme">>
    /\ selectedOrg = "acme"
    /\ appLoading = FALSE
    /\ orgPending = FALSE
    /\ orgResponse = NoOrgResponse
    /\ persistentStorage = {}
    /\ lastHandler = "none"

\* TokenInput.handleSubmit with the field's content; with a token in it,
\* handleTokenSubmit: setToken, then fetchOrganizations up to its await.
\* The field and the button are disabled while loading.
handleTokenSubmit ==
    /\ View = "TokenInput"
    /\ ~appLoading
    /\ \E field \in TokenFieldValues :
        IF Trim(field) = ""
        THEN UNCHANGED <<token, appLoading, orgPending>>
        ELSE /\ token' = Trim(field)
             /\ appLoading' = TRUE
             /\ orgPending' = TRUE
    /\ lastHandler' = "handleTokenSubmit"
    /\ UNCHANGED <<organizations, selectedOrg, orgResponse, persistentStorage>>
    /\ UNCHANGED notAppVars

\* the network settles GET /user/orgs
OrgResolve ==
    /\ orgPending
    /\ orgResponse = NoOrgResponse
    /\ orgResponse' \in OrgOutcomes
    /\ UNCHANGED <<token, organizations, selectedOrg, appLoading, orgPending, persistentStorage,
                   lastHandler>>
    /\ UNCHANGED notAppVars

\* continuation of fetchOrganizations: setOrganizations, or the catch
\* (setToken("")), then the finally
AfterOrgFetch ==
    /\ orgPending
    /\ orgResponse # NoOrgResponse
    /\ IF orgResponse.ok
       THEN /\ organizations' = orgResponse.orgs
            /\ UNCHANGED token
       ELSE /\ token' = ""
            /\ UNCHANGED organizations
    /\ appLoading' = FALSE
    /\ orgPending' = FALSE
    /\ orgResponse' = NoOrgResponse
    /\ lastHandler' = "fetchOrganizations"
    /\ UNCHANGED <<selectedOrg, persistentStorage>>
    /\ UNCHANGED notAppVars

\* variant: the sign-out keeps the organizations that were loaded
handleTokenClear_KeepsOrganizations ==
    /\ token # ""
    /\ token' = ""
    /\ selectedOrg' = NoOrg
    /\ lastHandler' = "handleTokenClear"
    /\ UNCHANGED <<organizations, appLoading, orgPending, orgResponse, persistentStorage>>
    /\ UNCHANGED notAppVars

\* Clear Token button of the header, rendered while there is a token
handleTokenClear ==
    /\ token # ""
    /\ token' = ""
    /\ organizations' = <<>>
    /\ selectedOrg' = NoOrg
    /\ lastHandler' = "handleTokenClear"
    /\ UNCHANGED <<appLoading, orgPending, orgResponse, persistentStorage>>
    /\ UNCHANGED notAppVars

\* Select Organization button of a card of OrganizationSelector
handleOrgSelect ==
    /\ View = "OrganizationSelector"
    /\ \E k \in 1..Len(organizations) : selectedOrg' = organizations[k]
    /\ lastHandler' = "handleOrgSelect"
    /\ UNCHANGED <<token, organizations, appLoading, orgPending, orgResponse, persistentStorage>>
    /\ UNCHANGED notAppVars

\* onBack of RepositoryGrid
onBack ==
    /\ View = "RepositoryGrid"
    /\ selectedOrg' = NoOrg
    /\ lastHandler' = "onBack"
    /\ UNCHANGED <<token, organizations, appLoading, orgPending, orgResponse, persistentStorage>>
    /\ UNCHANGED notAppVars

NextApp ==
    \/ handleTokenSubmit
    \/ OrgResolve
    \/ AfterOrgFetch
    \/ handleTokenClear
    \/ handleOrgSelect
    \/ onBack

(***************************************************************************)
(* EnvironmentManager: createSecret and createVariable                     *)
(***************************************************************************)

\* how many list requests of the dialog the model lets be unsettled at once
MaxListFetches == 2

\* an unsettled fetchSecrets or fetchVariables call, with the pair its URL
\* was built for
ListFetch(kind, repo, env) == [kind |-> kind, repo |-> repo, env |-> env]

\* the rendered list, with the pair it was fetched for
NoList == [repo |-> "", env |-> "", names |-> <<>>]

NoEmToast == [title |-> "none", successCount |-> 0, total |-> 0]

\* the dialog as RepositoryGrid opens it for (repo, env), its two list
\* requests settled, with the bulk switch and the checkboxes as the user
\* has set them
InitEnvManager(repo, env, bulk, repos, envs) ==
    /\ isManagerOpen = TRUE
    /\ repository = repo
    /\ environment = env
    /\ bulkMode = bulk
    /\ emSelectedRepos = repos
    /\ emSelectedEnvironments = envs
    /\ emIsCreating = FALSE
    /\ emSecrets = [repo |-> repo, env |-> env, names |-> <<>>]
    /\ emVariables = [repo |-> repo, env |-> env, names |-> <<>>]
    /\ emListFetches = <<>>
    /\ emToast = NoEmToast
    /\ emPc = "idle"
    /\ emKind = "none"
    /\ targetRepos = <<>>
    /\ targetEnvs = <<>>
    /\ emName = ""
    /\ emValue = ""
    /\ successCount = 0
    /\ totalCount = 0
    /\ emRepoIdx = 1
    /\ emEnvIdx = 1
    /\ emPending = NoRequest
    /\ emResponse = NoResponse
    /\ emIssued = <<>>
    /\ emThrown = "none"

\* the dialog not rendered open
InitNoEnvManager ==
    /\ isManagerOpen = FALSE
    /\ repository = ""
    /\ environment = ""
    /\ bulkMode = FALSE
    /\ emSelectedRepos = <<"">>
    /\ emSelectedEnvironments = <<"">>
    /\ emIsCreating = FALSE
    /\ emSecrets = NoList
    /\ emVariables = NoList
    /\ emListFetches = <<>>
    /\ emToast = NoEmToast
    /\ emPc = "idle"
    /\ emKind = "none"
    /\ targetRepos = <<>>
    /\ targetEnvs = <<>>
    /\ emName = ""
    /\ emValue = ""
    /\ successCount = 0
    /\ totalCount = 0
    /\ emRepoIdx = 1
    /\ emEnvIdx = 1
    /\ emPending = NoRequest
    /\ emResponse = NoResponse
    /\ emIssued = <<>>
    /\ emThrown = "none"

EmWriteKind(kind) == IF kind = "secrets" THEN "putSecret" ELSE "postVariable"
EmCreatedTitle(kind) == IF kind = "secrets" THEN "Secret Created" ELSE "Variable Created"
EmRefreshKind(kind) == IF kind = "secrets" THEN "listSecrets" ELSE "listVariables"

\* the end of the try block: the summary toast, then fetchSecrets() or
\* fetchVariables() up to its await, then the finally
EmSummary(kind, count, total) ==
    /\ Len(emListFetches) < MaxListFetches
    /\ emToast' = [title |-> EmCreatedTitle(kind), successCount |-> count, total |-> total]
    /\ emListFetches' = Append(emListFetches, ListFetch(EmRefreshKind(kind), repository, environment))
    /\ emIsCreating' = FALSE
    /\ emPc' = "done"
    /\ emPending' = NoRequest
    /\ emThrown' = "none"

\* the catch of createSecret/createVariable with the error thrown, then the
\* finally
EmCaught(message) ==
    /\ emThrown' = message
    /\ emToast' = [title |-> "Error", successCount |-> 0, total |-> 0]
    /\ emIsCreating' = FALSE
    /\ emPc' = "done"
    /\ emPending' = NoRequest
    /\ UNCHANGED emListFetches

\* createSecret / createVariable called with the contents of its two fields
\* (the Add button is disabled while isCreating), up to its first await or
\* to its end
EmCreate(kind, name, value) ==
    /\ isManagerOpen
    /\ ~emIsCreating
    /\ Trim(name) # ""
    /\ Trim(value) # ""
    /\ LET repos == IF bulkMode THEN emSelectedRepos ELSE <<repository>>
           envs == IF bulkMode THEN emSelectedEnvironments ELSE <<environment>>
       IN
        /\ Len(repos) * Len(envs) <= MaxTargets
        /\ emKind' = kind
        /\ emName' = name
        /\ emValue' = value
        /\ targetRepos' = repos
        /\ targetEnvs' = envs
        /\ successCount' = 0
        /\ totalCount' = Len(repos) * Len(envs)
        /\ emRepoIdx' = 1
        /\ emEnvIdx' = 1
        /\ emResponse' = NoResponse
        /\ IF Len(repos) = 0 \/ Len(envs) = 0
           THEN /\ EmSummary(kind, 0, Len(repos) * Len(envs))
                /\ emIssued' = <<>>
           ELSE IF kind = "secrets" /\ ~BtoaReturns(value)
           THEN /\ EmCaught(BtoaMessage)
                /\ emIssued' = <<>>
           ELSE /\ emIsCreating' = TRUE
                /\ emPc' = "write"
                /\ emPending' = Request(EmWriteKind(kind), repos[1], envs[1])
                /\ emIssued' = <<emPending'>>
                /\ emThrown' = "none"
                /\ UNCHANGED <<emToast, emListFetches>>
    /\ UNCHANGED <<isManagerOpen, repository, environment, bulkMode, emSelectedRepos,
                   emSelectedEnvironments, emSecrets, emVariables>>
    /\ UNCHANGED notEmVars

createSecret ==
    \E name \in NameValues, value \in FieldValues : EmCreate("secrets", name, value)

createVariable ==
    \E name \in NameValues, value \in FieldValues : EmCreate("variables", name, value)

\* the network settles the write in flight
EmResolve ==
    /\ emPending # NoRequest
    /\ emResponse = NoResponse
    /\ emResponse' \in Outcomes
    /\ UNCHANGED <<isManagerOpen, repository, environment, bulkMode, emSelectedRepos,
                   emSelectedEnvironments, emIsCreating, emSecrets, emVariables, emListFetches,
                   emToast, emPc, emKind, targetRepos, targetEnvs, emName, emValue,
                   successCount, totalCount, emRepoIdx, emEnvIdx, emPending, emIssued,
                   emThrown>>
    /\ UNCHANGED notEmVars

\* continuation of the loop after the write: a rejected fetch throws to the
\* one catch around the whole loop; else count the ok response, then the
\* write of the next target, or the summary
EmAfterWrite ==
    /\ emPc = "write"
    /\ emResponse # NoResponse
    /\ emResponse' = NoResponse
    /\ IF emResponse.type = "error"
       THEN /\ EmCaught(emResponse.message)
            /\ UNCHANGED <<successCount, emRepoIdx, emEnvIdx, emIssued>>
       ELSE LET count == IF Ok(emResponse) THEN successCount + 1 ELSE successCount IN
            /\ successCount' = count
            /\ IF HasNext(emRepoIdx, emEnvIdx, targetRepos, targetEnvs)
               THEN /\ emRepoIdx' = NextRepoIdx(emRepoIdx, emEnvIdx, targetRepos, targetEnvs)
                    /\ emEnvIdx' = NextEnvIdx(emRepoIdx, emEnvIdx, targetRepos, targetEnvs)
                    /\ emPending' = Request(EmWriteKind(emKind), targetRepos[emRepoIdx'],
                                            targetEnvs[emEnvIdx'])
                    /\ emIssued' = Append(emIssued, emPending')
                    /\ UNCHANGED <<emToast, emListFetches, emIsCreating, emPc, emThrown>>
               ELSE /\ EmSummary(emKind, count, totalCount)
                    /\ UNCHANGED <<emRepoIdx, emEnvIdx, emIssued>>
    /\ UNCHANGED <<isManagerOpen, repository, environment, bulkMode, emSelectedRepos,
                   emSelectedEnvironments, emSecrets, emVariables, emKind, targetRepos,
                   targetEnvs, emName, emValue, totalCount>>
    /\ UNCHANGED notEmVars

\* a fetchSecrets or fetchVariables call settles: an ok response replaces
\* the list, anything else leaves it
EmListSettles ==
    /\ \E k \in 1..Len(emListFetches), ok \in BOOLEAN, names \in SeqsUpTo({"TOKEN"}, 1) :
        LET f == emListFetches[k]
            list == [repo |-> f.repo, env |-> f.env, names |-> names]
        IN
        /\ emListFetches' = RemoveAt(emListFetches, k)
        /\ emSecrets' = IF ok /\ f.kind = "listSecrets" THEN list ELSE emSecrets
        /\ emVariables' = IF ok /\ f.kind = "listVariables" THEN list ELSE emVariables
    /\ UNCHANGED <<isManagerOpen, repository, environment, bulkMode, emSelectedRepos,
                   emSelectedEnvironments, emIsCreating, emToast, emPc, emKind, targetRepos,
                   targetEnvs, emName, emValue, successCount, totalCount, emRepoIdx, emEnvIdx,
                   emPending, emResponse, emIssued, emThrown>>
    /\ UNCHANGED notEmVars

\* how many openings of the dialog the model lets have list requests
\* unsettled at once
MaxOpenings == 2

\* what the invocation, the toast and the form of the dialog keep when the
\* dialog is opened or closed
emRunVars == <<bulkMode, emIsCreating, emToast, emPc, emKind, targetRepos, targetEnvs, emName,
               emValue, successCount, totalCount, emRepoIdx, emEnvIdx, emPending, emResponse,
               emIssued, emThrown>>

\* openEnvironmentManager(repoName, envName) of RepositoryGrid, from a cell
\* of the grid, and the effect of the dialog on [isOpen, repository,
\* environment]: fetchSecrets() and fetchVariables() run up to their await,
\* then the selection is reset to the pair. The lists are not cleared.
openEnvironmentManager ==
    /\ ~isManagerOpen
    /\ Len(emListFetches) + 2 <= 2 * MaxOpenings
    /\ \E repoName \in RepoNames, envName \in EnvNames :
        /\ repository' = repoName
        /\ environment' = envName
        /\ emListFetches' = emListFetches \o <<ListFetch("listSecrets", repoName, envName),
                                               ListFetch("listVariables", repoName, envName)>>
        /\ emSelectedRepos' = <<repoName>>
        /\ emSelectedEnvironments' = <<envName>>
    /\ isManagerOpen' = TRUE
    /\ UNCHANGED <<emSecrets, emVariables, emRunVars>>
    /\ UNCHANGED notEmVars

\* closeEnvironmentManager of RepositoryGrid (onClose of the dialog); the
\* effect runs with isOpen false and does nothing, the requests in flight
\* are not cancelled
closeEnvironmentManager ==
    /\ isManagerOpen
    /\ isManagerOpen' = FALSE
    /\ repository' = ""
    /\ environment' = ""
    /\ UNCHANGED <<emSelectedRepos, emSelectedEnvironments, emSecrets, emVariables,
                   emListFetches, emRunVars>>
    /\ UNCHANGED notEmVars

NextManagerLists ==
    \/ openEnvironmentManager
    \/ closeEnvironmentManager
    \/ EmListSettles

NextEnvManager ==
    \/ createSecret
    \/ createVariable
    \/ EmResolve
    \/ EmAfterWrite
    \/ EmListSettles

(***************************************************************************)
(* Specifications                                                          *)
(***************************************************************************)
\* RepositoryGrid shows the BulkOperations dialog
InitDialogs ==
    /\ isBulkOpsOpen = TRUE
    /\ isCreateEnvOpen = FALSE

Init ==
    /\ InitBulk
    /\ InitScan
    /\ InitDialogs
    /\ InitCreateEnv(<<>>)
    /\ InitGrid(Undefined)
    /\ InitRemote
    /\ InitSignedIn
    /\ InitNoEnvManager

Next == NextBulk

\* the bulk engine, from every selection the dialog can hold
Spec == Init /\ [][Next]_vars

\* the inventory scan; the bulk dialog stays untouched
InitScanSpec ==
    /\ InitBulk
    /\ selectedRepos = <<>>
    /\ selectedEnvironments = <<>>
    /\ InitScan
    /\ isBulkOpsOpen = FALSE
    /\ isCreateEnvOpen = FALSE
    /\ InitCreateEnv(<<>>)
    /\ InitGrid(Undefined)
    /\ InitRemote
    /\ InitSignedIn
    /\ InitNoEnvManager

SpecScan == InitScanSpec /\ [][NextScan]_vars

\* the inventory scan with the dialog closed and opened again while an
\* invocation is awaiting, against a remote that answers every request
SpecOverlap == InitScanSpec /\ [][NextOverlap]_vars

\* the dialogs with a form, one of them shown: RepositoryGrid renders them
\* as modal dialogs
InitForms ==
    /\ InitBulk
    /\ InitScan
    /\ InitGrid(Undefined)
    /\ InitRemote
    /\ InitSignedIn
    /\ InitNoEnvManager
    /\ \/ /\ isBulkOpsOpen = TRUE
          /\ isCreateEnvOpen = FALSE
          /\ <<selectedRepos, selectedEnvironments>> \in PresetSelections
          /\ InitCreateEnv(<<>>)
       \/ /\ isBulkOpsOpen = FALSE
          /\ isCreateEnvOpen = TRUE
          /\ selectedRepos = <<>>
          /\ selectedEnvironments = <<>>
          /\ \E selection \in DistinctSeqs(RepoNames) : InitCreateEnv(selection)

NextForms ==
    \/ NextBulk
    \/ bulkCreateSecretsReturnsEarly
    \/ bulkCreateVariablesReturnsEarly
    \/ NextCreateEnv

SpecForms == InitForms /\ [][NextForms]_vars

\* the bulk dialog as RepositoryGrid renders it: opened from the grid, with
\* onEnvironmentCreated refreshing the environment list of every repository
InitGridSpec ==
    /\ InitBulk
    /\ <<selectedRepos, selectedEnvironments>> \in PresetSelections
    /\ InitScan
    /\ InitDialogs
    /\ InitCreateEnv(<<>>)
    /\ InitGrid("refreshAll")
    /\ InitRemote
    /\ InitSignedIn
    /\ InitNoEnvManager

NextGridSpec == NextBulk \/ NextGrid

SpecGrid == InitGridSpec /\ [][NextGridSpec]_vars

\* the page from its load: token entry, organization list, sign-out; the
\* components of RepositoryGrid are not rendered
InitAppSpec ==
    /\ InitBulk
    /\ selectedRepos = <<>>
    /\ selectedEnvironments = <<>>
    /\ InitScan
    /\ isBulkOpsOpen = FALSE
    /\ isCreateEnvOpen = FALSE
    /\ InitCreateEnv(<<>>)
    /\ InitGrid(Undefined)
    /\ InitRemote
    /\ InitApp
    /\ InitNoEnvManager

SpecApp == InitAppSpec /\ [][NextApp]_vars

\* EnvironmentManager open for a pair of the grid, in single mode or in bulk
\* mode with some selection made; the other dialogs are closed
InitEnvManagerSpec ==
    /\ InitBulk
    /\ selectedRepos = <<>>
    /\ selectedEnvironments = <<>>
    /\ InitScan
    /\ isBulkOpsOpen = FALSE
    /\ isCreateEnvOpen = FALSE
    /\ InitCreateEnv(<<>>)
    /\ InitGrid(Undefined)
    /\ InitRemote
    /\ InitSignedIn
    /\ \E bulk \in BOOLEAN, repos \in DistinctSeqs(RepoNames), envs \in DistinctSeqs(EnvNames) :
          /\ ~bulk => (repos = <<repositories[1]>> /\ envs = <<COMMON_ENVIRONMENTS[1]>>)
          /\ InitEnvManager(repositories[1], COMMON_ENVIRONMENTS[1], bulk, repos, envs)

SpecEnvManager == InitEnvManagerSpec /\ [][NextEnvManager]_vars

\* EnvironmentManager from the load of the grid: opened from a cell, closed,
\* opened again, while its list requests settle in any order
InitManagerLists ==
    /\ InitBulk
    /\ selectedRepos = <<>>
    /\ selectedEnvironments = <<>>
    /\ InitScan
    /\ isBulkOpsOpen = FALSE
    /\ isCreateEnvOpen = FALSE
    /\ InitCreateEnv(<<>>)
    /\ InitGrid(Undefined)
    /\ InitRemote
    /\ InitSignedIn
    /\ InitNoEnvManager

SpecManagerLists == InitManagerLists /\ [][NextManagerLists]_vars

\* the bulk dialog from the load of the grid: closed, nothing selected
InitDialogSpec ==
    /\ InitBulk
    /\ selectedRepos = <<>>
    /\ selectedEnvironments = <<>>
    /\ InitScan
    /\ isBulkOpsOpen = FALSE
    /\ isCreateEnvOpen = FALSE
    /\ InitCreateEnv(<<>>)
    /\ InitGrid(Undefined)
    /\ InitRemote
    /\ InitSignedIn
    /\ InitNoEnvManager

SpecDialog == InitDialogSpec /\ [][NextDialog]_vars

\* the secrets run against the remote with upsert semantics, twice with the
\* same name, value and selection; every request is answered by the remote
InitUpsert ==
    /\ InitBulk
    /\ InitScan
    /\ InitDialogs
    /\ InitCreateEnv(<<>>)
    /\ InitGrid(Undefined)
    /\ remoteEnvironments \in {{}, Targets}
    /\ remoteSecrets = {}
    /\ runsStarted = 0
    /\ InitSignedIn
    /\ InitNoEnvManager

NextUpsert ==
    \/ FirstRun
    \/ SameRunAgain
    \/ RemoteResolve
    \/ AfterEnvCheck
    \/ AfterEnvCreate
    \/ AfterWrite

SpecUpsert == InitUpsert /\ [][NextUpsert]_vars

FairSpec ==
    /\ Spec
    /\ WF_vars(NetworkResolve)
    /\ WF_vars(AfterEnvCheck)
    /\ WF_vars(AfterEnvCreate)
    /\ WF_vars(AfterWrite)

(***************************************************************************)
(* Properties of the bulk engine                                           *)
(***************************************************************************)
Running == pc \in {"envGet", "envPut", "write"}

\* the n-th target of the run in repo-major order (n from 1)
TargetAt(n) ==
    <<runRepos[((n - 1) \div Len(runEnvs)) + 1], runEnvs[((n - 1) % Len(runEnvs)) + 1]>>

ResultTarget(r) == <<r.repo, r.environment>>

IsEnvFailure(r) == ~r.success /\ r.error = EnvFailedMessage
IsHttpFailure(r) == ~r.success /\ r.error \in {StatusText(st) : st \in Statuses}
IsException(r) == ~r.success /\ r.error \in ErrorMessages \cup {BtoaMessage}

\* C1: a finished run holds exactly |R|*|E| results, one for each pair of
\* R x E and none twice, whatever the remote calls returned.
C1_FullCartesianReport ==
    pc = "done" =>
        /\ Len(operationResults) = Len(runRepos) * Len(runEnvs)
        /\ \A r \in Range(runRepos), e \in Range(runEnvs) :
              Cardinality({k \in 1..Len(operationResults) :
                              ResultTarget(operationResults[k]) = <<r, e>>}) = 1
        /\ \A k \in 1..Len(operationResults) :
              /\ operationResults[k].repo \in Range(runRepos)
              /\ operationResults[k].environment \in Range(runEnvs)

\* a finished 2 x 2 run in which an environment failure, a non-2xx write, a
\* transport error and a success all occurred
C1_Witness ==
    /\ pc = "done"
    /\ Len(runRepos) = 2 /\ Len(runEnvs) = 2
    /\ \E a, b, c, d \in 1..Len(operationResults) :
          /\ IsEnvFailure(operationResults[a])
          /\ IsHttpFailure(operationResults[b])
          /\ IsException(operationResults[c])
          /\ operationResults[d].success

\* C2: a failed target never ends the run: while fewer results than targets
\* are recorded and one of them is a failure, the run is still processing the
\* next target of the product; the report is published only when complete.
C2_NoAbortOnFailure ==
    /\ (pc # "idle" /\ \E k \in 1..Len(operationResults) : ~operationResults[k].success
          /\ Len(operationResults) < totalOperations)
        => /\ Running
           /\ isProcessing
           /\ pending # NoRequest
           /\ <<pending.repo, pending.env>> = TargetAt(Len(operationResults) + 1)
    /\ pc = "done" => Len(operationResults) = totalOperations

\* a finished run in which each kind of failure is followed by a later target
\* that was written
C2_Witness ==
    /\ pc = "done"
    /\ \E a, b, c, d \in 1..Len(operationResults) :
          /\ a < b /\ b < c /\ c < d
          /\ IsEnvFailure(operationResults[a])
          /\ IsException(operationResults[b])
          /\ IsHttpFailure(operationResults[c])
          /\ operationResults[d].success

\* C3: when createEnvironmentIfNeeded returned false for a target, no write
\* request is issued for it and its result is the environment failure.
C3_EnvFailureSkipsWrite ==
    \A t \in Targets :
        ensureReturned[t] = "false" =>
            /\ writesIssued[t] = 0
            /\ ~(pending # NoRequest /\ pending.kind \in {"putSecret", "postVariable"}
                 /\ <<pending.repo, pending.env>> = t)
            /\ \E k \in 1..Len(operationResults) : ResultTarget(operationResults[k]) = t
            /\ \A k \in 1..Len(operationResults) :
                  ResultTarget(operationResults[k]) = t =>
                      operationResults[k] = EnvFailureResult(t[1], t[2])

\* the environment of one target was unavailable while another target of the
\* same run was written
C3_Witness ==
    /\ pc = "done"
    /\ \E t, u \in Targets :
          /\ ensureReturned[t] = "false" /\ writesIssued[t] = 0
          /\ ensureReturned[u] = "true" /\ writesIssued[u] = 1

\* C4: the results are in repo-major order: the k-th result is for the k-th
\* pair of R x E with the repositories as the outer loop, whatever succeeded.
C4_RepoMajorOrder ==
    pc # "idle" =>
        /\ \A k \in 1..Len(operationResults) :
              ResultTarget(operationResults[k]) = TargetAt(k)
        /\ Running => CurrentTarget = TargetAt(Len(operationResults) + 1)

\* a finished 2 x 2 run with failures and successes mixed
C4_Witness ==
    /\ pc = "done"
    /\ Len(runRepos) = 2 /\ Len(runEnvs) = 2
    /\ ~operationResults[1].success
    /\ operationResults[2].success
    /\ ~operationResults[3].success
    /\ operationResults[4].success
    /\ runRepos[1] # repositories[1]

\* a continuation of the run takes the resolved response
ConsumesResponse == response # NoResponse /\ response' = NoResponse

EnvPutsInLog == {k \in 1..Len(targetLog) : targetLog[k].req.kind = "putEnvironment"}
EnvGetsInLog == {k \in 1..Len(targetLog) : targetLog[k].req.kind = "getEnvironment"}

\* C7: createEnvironmentIfNeeded returns true exactly when the GET answered
\* 2xx, or the GET answered 404 and the PUT answered 2xx; every other status
\* and a transport error on either request make it return false to the loop
\* body (only on true the loop body goes on to the write; on false the result
\* is the environment failure and not an exception).
C7_EnsureReturnValue ==
    [][(ConsumesResponse /\ pc \in {"envGet", "envPut"}) =>
          LET t == CurrentTarget
              expected == \/ pc = "envGet" /\ Ok(response)
                          \/ /\ pc = "envPut"
                             /\ targetLog[1].resp = HttpResponse(404)
                             /\ Ok(response)
          IN  /\ pc = "envPut" => /\ targetLog[1].req.kind = "getEnvironment"
                                  /\ targetLog[1].resp = HttpResponse(404)
              /\ IF pc = "envGet" /\ response = HttpResponse(404)
                 THEN /\ pc' = "envPut"
                      /\ pending' = Request("putEnvironment", t[1], t[2])
                      /\ ensureReturned'[t] = "none"
                      /\ operationResults' = operationResults
                 ELSE /\ ensureReturned'[t] = IF expected THEN "true" ELSE "false"
                      /\ (expected /\ ~WriteThrows) <=>
                            (pc' = "write" /\ operationResults' = operationResults)
                      /\ (expected /\ WriteThrows) => operationResults' =
                            Append(operationResults, ExceptionResult(t[1], t[2], BtoaMessage))
                      /\ ~expected => operationResults' =
                            Append(operationResults, EnvFailureResult(t[1], t[2]))
    ]_vars

\* the write of a target is in flight after GET 404 and PUT 2xx, while an
\* earlier target of the run got false
C7_Witness ==
    /\ pc = "write"
    /\ EnvPutsInLog # {}
    /\ ensureReturned[CurrentTarget] = "true"
    /\ \E t \in Targets : ensureReturned[t] = "false"

\* C8: within a run every target has one iteration, and in it the environment
\* PUT is issued at most once and only after the GET answered 404, so never
\* for an environment whose GET answered 2xx.
C8_CreateAtMostOnce ==
    pc # "idle" =>
        /\ \A k \in 1..Len(targetLog) :
              <<targetLog[k].req.repo, targetLog[k].req.env>> = CurrentTarget
        /\ Cardinality(EnvGetsInLog) = 1
        /\ Cardinality(EnvPutsInLog) <= 1
        /\ EnvPutsInLog # {} =>
              /\ targetLog[1].req.kind = "getEnvironment"
              /\ targetLog[1].resp = HttpResponse(404)
              /\ ~Ok(targetLog[1].resp)
        /\ (pending # NoRequest /\ pending.kind = "putEnvironment") => pc = "envPut"
        /\ Running => CurrentTarget = TargetAt(Len(operationResults) + 1)
        /\ \A m, n \in 1..totalOperations : m # n => TargetAt(m) # TargetAt(n)

\* the environment of the second target is being created, the first target's
\* environment existed
C8_Witness ==
    /\ pc = "envPut"
    /\ Len(operationResults) = 1
    /\ operationResults[1].success
    /\ EnvPutsInLog # {}

ProgressMatches ==
    progress.num * totalOperations = Len(operationResults) * 100 * progress.den

\* C9: during a run the progress is completed/total*100 after every target,
\* it never decreases from one target to the next, and it is 100 only once the
\* last target has been recorded.
C9_Progress ==
    /\ [](/\ isProcessing => /\ ProgressMatches
                             /\ completedOperations = Len(operationResults)
          /\ (pc # "idle" /\ IsHundred(progress)) => Len(operationResults) = totalOperations)
    /\ [][Running =>
            /\ FracLeq(progress, progress')
            /\ Len(operationResults') = Len(operationResults) + 1 => ProgressMatches'
            /\ progress' # progress => Len(operationResults') = Len(operationResults) + 1
         ]_vars

\* half-way through a run of four targets, after an environment failure and
\* a successful write
C9_Witness ==
    /\ isProcessing
    /\ totalOperations = 4
    /\ Len(operationResults) = 2
    /\ IsEnvFailure(operationResults[1])
    /\ operationResults[2].success
    /\ progress = [num |-> 200, den |-> 4]

Published ==
    /\ pc = "done"
    /\ ~isProcessing
    /\ results = operationResults
    /\ Len(results) = totalOperations
    /\ lastToast = [title |-> ToastTitle, successCount |-> SuccessCount(results),
                    total |-> totalOperations]

\* C10: when every request eventually resolves, every started run ends with
\* isProcessing false and the counts and per-target results published.
C10_RunTerminates == isProcessing ~> Published

\* a published report of a run in which every target failed
C10_Witness ==
    /\ Published
    /\ Len(results) >= 2
    /\ \A k \in 1..Len(results) : ~results[k].success
    /\ lastToast.successCount = 0

(***************************************************************************)
(* Properties of the inventory scan                                        *)
(***************************************************************************)
ScanGrid == Range(repositories) \X Range(SCAN_COMMON_ENVIRONMENTS)

KeysOf(locs) == [k \in 1..Len(locs) |-> LocationKey(locs[k])]

Occurrences(seq, x) == Cardinality({k \in 1..Len(seq) : seq[k] = x})

\* locations and missingIn of `entry` hold every pair of the grid exactly
\* once between them, and nothing else
PartitionsGrid(entry) ==
    LET both == KeysOf(entry.locations) \o KeysOf(entry.missingIn) IN
    /\ \A g \in ScanGrid : Occurrences(both, g) = 1
    /\ \A k \in 1..Len(both) : both[k] \in ScanGrid

\* C5: for every name of the published maps, locations and missingIn
\* partition R x E exactly: no overlap, no gap, no location twice.
C5_ExactPartition ==
    /\ \A n \in DOMAIN secretsMap : PartitionsGrid(secretsMap[n])
    /\ \A n \in DOMAIN variablesMap : PartitionsGrid(variablesMap[n])

\* the scan's continuation takes the resolved list response
ScanConsumes == scanResponse # NoResponse /\ scanResponse' = NoResponse

\* the k-th list request of a scan: pairs in repo-major order, the secrets
\* request of a pair before its variables request
ExpectedScanRequest(k) ==
    LET p == (k - 1) \div 2
        repo == repositories[(p \div Len(SCAN_COMMON_ENVIRONMENTS)) + 1]
        env == SCAN_COMMON_ENVIRONMENTS[(p % Len(SCAN_COMMON_ENVIRONMENTS)) + 1]
    IN Request(IF k % 2 = 1 THEN "listSecrets" ELSE "listVariables", repo, env)

ScanRequestCount == 2 * Len(repositories) * Len(SCAN_COMMON_ENVIRONMENTS)

ScanFinished == scanPc = "idle" /\ scanIssued # <<>>

HasLocationAt(map, repo, env) ==
    \E n \in DOMAIN map : <<repo, env>> \in ExistingLocations(map[n])

\* C6: a failed list request adds nothing for its pair and does not end the
\* scan: the next request in order is issued (the variables of the same
\* pair, or the secrets of the next pair), and after the last one both maps
\* are published.
C6_ListFailureTolerated ==
    /\ [][(ScanConsumes /\ ~ListSucceeded(scanResponse)) =>
            /\ scanPc = "secrets" =>
                  /\ newSecretsMap' = newSecretsMap /\ newVariablesMap' = newVariablesMap
                  /\ scanPending' = Request("listVariables", ScanRepo, ScanEnv)
            /\ (scanPc = "variables" /\ Len(scanIssued) < ScanRequestCount) =>
                  /\ newSecretsMap' = newSecretsMap /\ newVariablesMap' = newVariablesMap
                  /\ scanPending' = ExpectedScanRequest(Len(scanIssued) + 1)
                  /\ scanPending'.kind = "listSecrets"
            /\ (scanPc = "variables" /\ Len(scanIssued) = ScanRequestCount) =>
                  /\ secretsMap' = WithMissing(newSecretsMap)
                  /\ variablesMap' = WithMissing(newVariablesMap)
                  /\ ~loading'
         ]_vars
    /\ [](/\ \A k \in 1..Len(scanIssued) : scanIssued[k] = ExpectedScanRequest(k)
          /\ ScanFinished =>
                /\ Len(scanIssued) = ScanRequestCount
                /\ secretsMap = newSecretsMap /\ variablesMap = newVariablesMap
                /\ ~loading
          /\ (firstFailure # NoRequest /\ firstFailure.kind = "listSecrets") =>
                ~HasLocationAt(newSecretsMap, firstFailure.repo, firstFailure.env)
          /\ (firstFailure # NoRequest /\ firstFailure.kind = "listVariables") =>
                ~HasLocationAt(newVariablesMap, firstFailure.repo, firstFailure.env))

\* a published scan whose very first request failed, with a variable found
\* for the same pair and a secret found for a later pair
C6_Witness ==
    /\ ScanFinished
    /\ firstFailure = ExpectedScanRequest(1)
    /\ HasLocationAt(variablesMap, repositories[1], SCAN_COMMON_ENVIRONMENTS[1])
    /\ HasLocationAt(secretsMap, repositories[Len(repositories)],
                     SCAN_COMMON_ENVIRONMENTS[Len(SCAN_COMMON_ENVIRONMENTS)])

(***************************************************************************)
(* Properties of the form handlers                                         *)
(***************************************************************************)
\* C11: bulkCreateSecrets, bulkCreateVariables and createEnvironments called
\* with a blank name, a blank value or an empty repository or environment
\* selection issue no network request and leave isProcessing/isCreating,
\* progress and results as they were.
C11_ValidationRejects ==
    [][/\ lastInvocation'.invalid =>
            UNCHANGED <<isProcessing, pc, pending, response, targetLog, writesIssued>>
       /\ (lastInvocation'.invalid /\ lastInvocation' # lastInvocation) =>
            UNCHANGED <<progress, results>>
       /\ ceLastInvocation'.invalid =>
            UNCHANGED <<isCreating, cePc, cePending, ceResponse>>
       /\ (ceLastInvocation'.invalid /\ ceLastInvocation' # ceLastInvocation) =>
            UNCHANGED <<ceProgress, ceResults>>]_vars

\* bulkCreateSecrets was called with a blank field after a finished run
C11_Witness ==
    /\ lastInvocation = Invocation("bulkCreateSecrets", TRUE)
    /\ selectedRepos # <<>>
    /\ selectedEnvironments # <<>>
    /\ pc = "done"
    /\ Len(results) = 1
    /\ ~isProcessing
    /\ pending = NoRequest

(***************************************************************************)
(* Sequencing of the requests of a bulk run                                *)
(***************************************************************************)
\* the kinds of the requests in the log of the target being processed
RequestKindsInLog ==
    LET reqs == SelectSeq(targetLog, LAMBDA e : e.req.kind # "onEnvironmentCreated")
    IN [k \in 1..Len(reqs) |-> reqs[k].req.kind]

\* a step puts a request of the run in flight
IssuesRequest ==
    /\ pending' # NoRequest
    /\ targetLog' # targetLog
    /\ targetLog'[Len(targetLog')] = LogEntry(pending')

\* C12: a run processes one target at a time: the environment GET of target
\* k+1 is issued only once the result of target k is recorded, and within a
\* target the GET, the optional PUT and the write are issued in that order,
\* each one only after the previous one resolved.
C12_OneTargetAtATime ==
    /\ [](Running =>
            /\ RequestKindsInLog \in {<<"getEnvironment">>,
                                      <<"getEnvironment", "putEnvironment">>,
                                      <<"getEnvironment", WriteKind>>,
                                      <<"getEnvironment", "putEnvironment", WriteKind>>}
            /\ \A k \in 1..Len(targetLog) :
                  /\ <<targetLog[k].req.repo, targetLog[k].req.env>> = CurrentTarget
                  /\ (k < Len(targetLog) /\ targetLog[k].req.kind # "onEnvironmentCreated")
                        => targetLog[k].resp # NoResponse
            /\ pending = targetLog[Len(targetLog)].req
            /\ CurrentTarget = TargetAt(Len(operationResults) + 1))
    /\ [][IssuesRequest =>
            /\ \/ ~isProcessing /\ isProcessing'
               \/ response # NoResponse /\ response' = NoResponse
            /\ pending'.kind = "getEnvironment" =>
                  /\ <<pending'.repo, pending'.env>> = (TargetAt(Len(operationResults) + 1))'
                  /\ Len(operationResults') = completedOperations'
                  /\ isProcessing => Len(operationResults') = Len(operationResults) + 1]_vars

\* the write of the second target is in flight after its environment was
\* checked and created
C12_Witness ==
    /\ pc = "write"
    /\ Len(operationResults) = 1
    /\ RequestKindsInLog = <<"getEnvironment", "putEnvironment", WriteKind>>

\* the requests caused by the running bulkCreate* invocation that have been
\* issued and have not settled: its own request, and the fetchEnvironments
\* calls RepositoryGrid issued when the invocation called onEnvironmentCreated
RunRequestsInFlight ==
    (IF pending # NoRequest /\ response = NoResponse THEN 1 ELSE 0)
    + Cardinality({k \in 1..Len(envFetches) : envFetches[k].cause = "bulkCreate"})

\* C13: from the start of a bulk operation until its report is published, at
\* most one network request caused by the operation is in flight, the
\* environment-list refreshes of onEnvironmentCreated included.
C13_AtMostOneInFlight == isProcessing => RunRequestsInFlight <= 1

\* C14: the bulk create-secret operation, run twice with the same name, value
\* and selection against a remote whose secret PUT is an upsert, reports
\* success for every target in both runs.
C14_BothRunsSucceed ==
    (pc = "done" /\ runsStarted >= 1) => \A k \in 1..Len(results) : results[k].success

\* what the published maps say is defined where
PublishedDefined(kind, map) ==
    UNION {{<<kind, n, map[n].locations[k].repository, map[n].locations[k].environment>> :
               k \in 1..Len(map[n].locations)} : n \in DOMAIN map}

\* C15: a scan owns its accumulator. With two invocations overlapping, the
\* published secretsMap and variablesMap hold exactly what the responses of
\* one invocation, the one that published last, listed, with missingIn
\* computed from it: never a mix of two invocations. (Two bulk runs cannot
\* overlap: every control that starts one is disabled while isProcessing.)
C15_OwnAccumulator ==
    /\ PublishedDefined("listSecrets", secretsMap) \cup PublishedDefined("listVariables", variablesMap)
         = publishedListed
    /\ \A n \in DOMAIN secretsMap : secretsMap[n].missingIn = MissingIn(secretsMap[n])
    /\ \A n \in DOMAIN variablesMap : variablesMap[n].missingIn = MissingIn(variablesMap[n])

\* the later invocation has published what it was listed while the earlier
\* one, which was listed something else, is still awaiting
C15_Witness ==
    /\ earlierScan.pc # "idle"
    /\ earlierScan.listed # {}
    /\ scanPc = "idle"
    /\ publishedListed # {}
    /\ publishedListed \cap earlierScan.listed = {}

\* C16: right after handleTokenClear the token is empty, the organizations
\* list is empty, no organization is selected and the token-entry view is
\* shown; and nothing is ever written to persistent storage.
C16_TokenDiscarded ==
    /\ lastHandler = "handleTokenClear" =>
          /\ token = ""
          /\ organizations = <<>>
          /\ selectedOrg = NoOrg
          /\ View = "TokenInput"
    /\ persistentStorage = {}

\* the sign-out from the repository view, with organizations loaded
C16_Witness ==
    /\ lastHandler = "handleTokenClear"
    /\ token = ""
    /\ ~orgPending
    /\ ~appLoading

\* the targets the invocation has issued a write for
EmAttempted == {<<emIssued[k].repo, emIssued[k].env>> : k \in 1..Len(emIssued)}
EmTargets == Range(targetRepos) \X Range(targetEnvs)
EmTransportFailed == emThrown \in ErrorMessages

\* C17: in the bulk mode of EnvironmentManager a transport failure on one
\* target is not fatal: when the invocation has ended, every target was
\* attempted and the success/total summary was shown.
C17_TransportFailureNotFatal ==
    (bulkMode /\ emPc = "done" /\ EmTransportFailed) =>
        /\ EmAttempted = EmTargets
        /\ emToast.title = EmCreatedTitle(emKind)

\* the targets of the run, and those whose environment was available and
\* whose write was answered 2xx
RunTargets == Range(runRepos) \X Range(runEnvs)
WrittenTargets == {t \in RunTargets : ensureReturned[t] = "true" /\ Ok(writeAnswers[t])}

\* C18: the success count reported at the end of a run is the number of
\* targets whose environment was available and whose write answered 2xx,
\* the total is |R|*|E|; when that is every target, the count is the total
\* and progress is 100.
C18_SuccessCount ==
    /\ pc = "done" =>
          /\ lastToast.successCount = Cardinality(WrittenTargets)
          /\ lastToast.total = Len(runRepos) * Len(runEnvs)
          /\ WrittenTargets = RunTargets => lastToast.successCount = lastToast.total
    /\ Published =>
          /\ SuccessCount(results) = Cardinality(WrittenTargets)
          /\ WrittenTargets = RunTargets => IsHundred(progress)

\* the run over {api, web} x {production, staging} with every write
\* answered 2xx: 4 results, 4 successes, progress 100
C18_Witness ==
    /\ pc = "done"
    /\ Len(runRepos) = 2
    /\ Len(runEnvs) = 2
    /\ WrittenTargets = RunTargets
    /\ Len(results) = 4
    /\ lastToast.successCount = 4
    /\ IsHundred(progress)

\* what C19 says of the result `r` of a target whose write had the outcome `a`
ErrorDescribes(r, a) ==
    /\ (r.error # Undefined) <=> ~r.success
    /\ (a.type = "http" /\ ~Ok(a)) => r.error = StatusText(a.status)
    /\ a.type = "error" => r.error \in {a.message, "Unknown error"}
    /\ (a = NoResponse /\ ensureReturned[ResultTarget(r)] = "true") =>
          r.error \in {BtoaMessage, "Unknown error"}

\* C19: in every result of a run the error is present exactly when success
\* is false; a write answered with a non-2xx status gives "HTTP <status>",
\* an exception (a rejected fetch, or btoa throwing before the request)
\* gives the exception's message or "Unknown error".
C19_ErrorDescriptor ==
    /\ \A k \in 1..Len(operationResults) :
          ErrorDescribes(operationResults[k], writeAnswers[ResultTarget(operationResults[k])])
    /\ Published =>
          \A k \in 1..Len(results) :
              ErrorDescribes(results[k], writeAnswers[ResultTarget(results[k])])

\* a published report with a success, a write answered non-2xx and a
\* rejected write
C19_Witness ==
    /\ Published
    /\ \E i, j, k \in 1..Len(results) :
          /\ results[i].success /\ results[i].error = Undefined
          /\ IsHttpFailure(results[j])
          /\ results[k].error \in ErrorMessages

\* the grid R x E in grid order (repositories outer, environments inner),
\* as keys
GridOrder ==
    [k \in 1..(Len(repositories) * Len(SCAN_COMMON_ENVIRONMENTS)) |->
        <<repositories[((k - 1) \div Len(SCAN_COMMON_ENVIRONMENTS)) + 1],
          SCAN_COMMON_ENVIRONMENTS[((k - 1) % Len(SCAN_COMMON_ENVIRONMENTS)) + 1]>>]

\* what C20 says of the published `map` built from the `kind` requests
DefinedWhereListed(kind, map) ==
    /\ \A n \in EntryNames, g \in ScanGrid :
          (n \in DOMAIN map /\ g \in ExistingLocations(map[n]))
              <=> <<kind, n, g[1], g[2]>> \in publishedListed
    /\ \A n \in DOMAIN map :
          KeysOf(map[n].missingIn)
              = SelectSeq(GridOrder, LAMBDA g : <<kind, n, g[1], g[2]>> \notin publishedListed)

\* C20: in the published maps a location is among the locations of a name
\* if and only if the list request of the scan for that location succeeded
\* and listed the name, and missingIn is the grid without these locations,
\* in grid order.
C20_DefinedIffListed ==
    /\ DefinedWhereListed("listSecrets", secretsMap)
    /\ DefinedWhereListed("listVariables", variablesMap)

\* TOKEN listed for (api, production) and (web, staging) only: missingIn is
\* (api, staging), (web, production)
C20_Witness ==
    /\ ScanFinished
    /\ "TOKEN" \in DOMAIN secretsMap
    /\ KeysOf(secretsMap["TOKEN"].locations) = <<<<"api", "production">>, <<"web", "staging">>>>
    /\ KeysOf(secretsMap["TOKEN"].missingIn) = <<<<"api", "staging">>, <<"web", "production">>>>

(***************************************************************************)
(* Attempts per target                                                     *)
(***************************************************************************)
\* the write of target t is in flight
WriteInFlight(t) ==
    /\ pending # NoRequest
    /\ pending.kind \in {"putSecret", "postVariable"}
    /\ <<pending.repo, pending.env>> = t

\* C21: in one run the write request of a target is issued exactly once when
\* its environment check returned true and never otherwise, and a target that
\* has its result is not attempted again.
C21_SingleAttempt ==
    \A t \in Targets :
        /\ writesIssued[t] = (IF ensureReturned[t] = "true" THEN 1 ELSE 0)
        /\ (\E k \in 1..Len(operationResults) : ResultTarget(operationResults[k]) = t)
              => ~(Running /\ CurrentTarget = t)
        /\ WriteInFlight(t) => (pc = "write" /\ CurrentTarget = t /\ writesIssued[t] = 1)

(***************************************************************************)
(* Requests of one inventory scan                                          *)
(***************************************************************************)
\* a step in which the scan puts a list request in flight
ScanIssues == scanIssued' # scanIssued

\* C22: one scan issues exactly one secrets-list and one variables-list
\* request for every pair of repositories x COMMON_ENVIRONMENTS, in repo-major
\* order with the secrets request of a pair before its variables request, and
\* it issues a request only when none of its requests is unanswered.
C22_OneRequestPerPair ==
    /\ [](/\ \A k \in 1..Len(scanIssued) : scanIssued[k] = ExpectedScanRequest(k)
          /\ \A g \in ScanGrid, kind \in {"listSecrets", "listVariables"} :
                /\ Occurrences(scanIssued, Request(kind, g[1], g[2])) <= 1
                /\ ScanFinished => Occurrences(scanIssued, Request(kind, g[1], g[2])) = 1
          /\ \A k \in 1..Len(scanIssued) :
                <<scanIssued[k].repo, scanIssued[k].env>> \in ScanGrid
          /\ scanPc # "idle" => scanPending = scanIssued[Len(scanIssued)])
    /\ [][ScanIssues =>
            /\ \/ scanPc = "idle" /\ scanPending = NoRequest
               \/ scanPending # NoRequest /\ scanResponse # NoResponse /\ scanResponse' = NoResponse
            /\ scanResponse' = NoResponse
            /\ \/ scanIssued' = Append(scanIssued, scanPending')
               \/ scanPc = "idle" /\ scanIssued' = <<scanPending'>>
         ]_vars

\* the last request of a scan is in flight, after the variables request of
\* the first pair had failed and something was listed
C22_Witness ==
    /\ scanPc = "variables"
    /\ Len(scanIssued) = ScanRequestCount
    /\ scanResponse = NoResponse
    /\ firstFailure = ExpectedScanRequest(2)
    /\ entriesSeen > 0

(***************************************************************************)
(* EnvironmentManager: what precedes a write                               *)
(***************************************************************************)
\* the requests createSecret/createVariable issued before its k-th one that
\* check or create the environment of (repo, env)
EmEnsuredBefore(k, repo, env) ==
    {j \in 1..(k - 1) : /\ emIssued[j].kind \in {"getEnvironment", "putEnvironment"}
                        /\ emIssued[j].repo = repo
                        /\ emIssued[j].env = env}

\* C23: in bulk mode, before the secret or variable write of a target is
\* issued, the environment of that target has been checked (and created when
\* missing).
C23_EnvironmentEnsuredFirst ==
    bulkMode =>
        \A k \in 1..Len(emIssued) :
            emIssued[k].kind \in {"putSecret", "postVariable"}
                => EmEnsuredBefore(k, emIssued[k].repo, emIssued[k].env) # {}

\* a step that is a call of createSecret or createVariable: no invocation is
\* awaiting its write, and the step is not the settling of a list request
EmInvoked ==
    /\ isManagerOpen
    /\ emPc # "write"
    /\ Len(emListFetches') >= Len(emListFetches)
    /\ <<emPc, emKind, emName, emValue, emToast, emListFetches, emPending>>'
          # <<emPc, emKind, emName, emValue, emToast, emListFetches, emPending>>

\* C24: in bulk mode, createSecret and createVariable called with an empty
\* repository selection or an empty environment selection issue no request
\* of any kind: no write and no list request.
C24_EmptySelectionRejected ==
    [][(EmInvoked /\ bulkMode /\ (emSelectedRepos = <<>> \/ emSelectedEnvironments = <<>>)) =>
          /\ emPending' = NoRequest
          /\ emIssued' = <<>>
          /\ emListFetches' = emListFetches
      ]_vars

(***************************************************************************)
(* EnvironmentManager: the lists it shows                                  *)
(***************************************************************************)
\* the entries of `list`, if it has any, were returned for the pair the
\* dialog is open for
ListOfOpenPair(list) ==
    list.names # <<>> => (list.repo = repository /\ list.env = environment)

\* C25: whenever the dialog is open and none of its list requests is in
\* flight, the secrets and the variables it holds were returned for the pair
\* it is open for: no entry fetched for another pair is left in them.
C25_ListsOfOpenPair ==
    (isManagerOpen /\ emListFetches = <<>>) =>
        (ListOfOpenPair(emSecrets) /\ ListOfOpenPair(emVariables))

(***************************************************************************)
(* RepositoryGrid: overlapping refreshes of one repository                 *)
(***************************************************************************)
\* the fetchEnvironments calls for `repo` that have not settled
UnsettledFor(repo) == {k \in 1..Len(envFetches) : envFetches[k].repo = repo}

\* C26: once every fetchEnvironments call for a repository has completed,
\* environments[repo] is what the most recently issued of them set, whatever
\* the order in which the responses arrived.
C26_LatestCallWins ==
    \A repo \in RepoNames :
        UnsettledFor(repo) = {} => environments[repo] = latestAnswer[repo]

(***************************************************************************)
(* App: the organizations without a token                                  *)
(***************************************************************************)
\* C27: in every reachable state an empty token implies an empty
\* organizations list and no selected organization; a response that arrives
\* after Clear Token does not repopulate the organizations.
C27_NoTokenNoOrganizations ==
    token = "" => (organizations = <<>> /\ selectedOrg = NoOrg)

(***************************************************************************)
(* The bulk dialog while a run is in progress                              *)
(***************************************************************************)
\* a step in which a bulkCreate* invocation passes its validation and
\* starts: its locals are fresh and the GET of its first target is in flight
RunStarts ==
    /\ runVars' # runVars
    /\ pc' = "envGet"
    /\ completedOperations' = 0
    /\ operationResults' = <<>>
    /\ response' = NoResponse
    /\ Len(targetLog') = 1

\* C28: at most one bulk run is in progress in the dialog: isProcessing is
\* true from the start of a run until its results are published, and while
\* it is true no run is started by Create Secret or Create Variable and
\* Reset Form does not clear the results or the progress.
C28_OneRunAtATime ==
    /\ [](/\ isProcessing <=> Running
          /\ pc = "done" => (~isProcessing /\ pending = NoRequest))
    /\ [][/\ RunStarts => (~isProcessing /\ ~Running /\ isProcessing')
          /\ (isProcessing /\ isProcessing') =>
                /\ results' = results
                /\ progress' # progress => completedOperations' = completedOperations + 1
                /\ UNCHANGED <<runKind, runName, runValue, lastInvocation>>
          /\ (isProcessing /\ ~isProcessing') =>
                /\ pc' = "done"
                /\ results' = operationResults'
                /\ Len(results') = totalOperations
         ]_vars

\* a run is half-way while the dialog is open with another, valid, selection
\* made: only isProcessing keeps the Create buttons disabled
C28_Witness ==
    /\ isProcessing
    /\ isBulkOpsOpen
    /\ Len(operationResults) = 1
    /\ totalOperations = 2
    /\ selectedRepos # <<>>
    /\ selectedEnvironments # <<>>
    /\ selectedRepos # runRepos

\* a step that changes the selection of the dialog
SelectionChanged ==
    <<selectedRepos, selectedEnvironments>>' # <<selectedRepos, selectedEnvironments>>

\* C29: changing the selection while a run is in progress (checkboxes,
\* Select All, Clear, a new preset) leaves the run's target list, its total
\* and its recorded results unchanged: the run covers exactly the selection
\* that was current when it started.
C29_RunKeepsItsSelection ==
    /\ [][/\ RunStarts =>
                /\ runRepos' = selectedRepos
                /\ runEnvs' = selectedEnvironments
                /\ totalOperations' = Len(selectedRepos) * Len(selectedEnvironments)
          /\ isProcessing => UNCHANGED <<runRepos, runEnvs, totalOperations>>
          /\ (isProcessing /\ SelectionChanged) =>
                UNCHANGED <<operationResults, completedOperations, results, progress, pc,
                            repoIdx, envIdx, pending, response, isProcessing>>
         ]_vars
    /\ [](/\ pc # "idle" =>
                /\ totalOperations = Len(runRepos) * Len(runEnvs)
                /\ \A k \in 1..Len(operationResults) :
                      ResultTarget(operationResults[k]) = TargetAt(k)
                /\ Running => <<pending.repo, pending.env>> = TargetAt(Len(operationResults) + 1)
          /\ pc = "done" => Len(operationResults) = Len(runRepos) * Len(runEnvs))

\* the second target of a run is being processed after both the repositories
\* and the environments of the selection were changed
C29_Witness ==
    /\ Running
    /\ Len(operationResults) = 1
    /\ totalOperations = 2
    /\ selectedRepos # runRepos
    /\ selectedEnvironments # runEnvs
    /\ ~isBulkOpsOpen

====
